---- MODULE Spec2Model ----
(***************************************************************************)
(* A model of rvasm: the bit-range encoder and the ISA model (arch.rs),    *)
(* the flat binary emitter (emit/flatbin.rs) and the expression grammar    *)
(* (grammar.rs).                                                           *)
(*                                                                         *)
(* A u64 is the set of the positions of its 1 bits (TLC's integers are     *)
(* narrower than 64 bits), a byte is an integer 0..255, a byte buffer is a *)
(* sequence of bytes (buffer index i is sequence index i + 1).             *)
(***************************************************************************)
EXTENDS Integers, Sequences, FiniteSets, TLC

VARIABLES
    build,      \* "debug" | "release": decides what an overflowing shift does
    encBytes,   \* BitRangeMap::encode_into: the buffer `bytes`
    encBefore,  \* the buffer before the last encode_into call
    encMap,     \* the BitRangeMap (self)
    encVal,     \* the value of the last call
    encPrevVal, \* the value of the call before the last
    encCalls,   \* number of encode_into calls made
    encPanic,   \* the last call panicked
    rvspec,     \* the RiscVSpec
    rvPrev,     \* the RiscVSpec before the last load call
    loaded,     \* the documents (indices into Docs) given to load so far
    loadOks,    \* for each of them, whether the call returned Ok(())
    loadRes,    \* the result of the last load call
    out_buf,    \* BinaryEmitState.out_buf
    out_pos,    \* BinaryEmitState.out_pos
    prev,       \* the BinaryEmitState before the last statement
    prog,       \* the children of the Root (indices into Stmts) emitted so far
    result,     \* what emit_flat_binary returned, tag "Running" before it returns
    src,        \* the source text given to the grammar, a sequence of characters
    ast,        \* what the grammar rule made of it
    conv        \* the digit strings the rule's actions handed to Node::parse_u64

encVars == <<encBytes, encBefore, encMap, encVal, encPrevVal, encCalls, encPanic>>
loadVars == <<rvPrev, loaded, loadOks, loadRes>>
emitVars == <<out_buf, out_pos, prev, prog, result>>
parseVars == <<src, ast, conv>>
vars == <<build, encVars, rvspec, loadVars, emitVars, parseVars>>

-----------------------------------------------------------------------------
(* u64 arithmetic on bit sets *)

U64Width == 64
ByteWidth == 8

BitPos == 0 .. (U64Width - 1)

And64(a, b) == a \cap b

\* a << k, bits shifted past bit 63 are lost; 0 <= k < 64
Shl64(a, k) == {i + k : i \in a} \cap BitPos

\* a >> k (logical); 0 <= k < 64
Shr64(a, k) == {i - k : i \in {j \in a : j >= k}}

\* (1 << len) - 1 for 0 <= len < 64
LowMask(len) == 0 .. (len - 1)

\* The shift `x << k` / `x >> k` with an i32 amount k on a u64: an amount
\* outside 0..63 panics in a debug build and is masked to k mod 64 in a
\* release build.
ShiftOverflows(k) == k < 0 \/ k >= U64Width
ShiftAmount(k) == k % U64Width

\* u64 of a small natural number
RECURSIVE NatBits(_, _)
NatBits(n, i) == IF n = 0 THEN {}
                 ELSE (IF n % 2 = 1 THEN {i} ELSE {}) \cup NatBits(n \div 2, i + 1)
U64(n) == NatBits(n, 0)

\* the bits of a byte and back
ByteBits(b) == {i \in 0 .. (ByteWidth - 1) : (b \div (2 ^ i)) % 2 = 1}
RECURSIVE BitsSum(_)
BitsSum(S) == IF S = {} THEN 0
              ELSE LET i == CHOOSE x \in S : TRUE IN (2 ^ i) + BitsSum(S \ {i})
ByteOf(S) == BitsSum(S)
\* (x & 0xff) as u8
LowByte(x) == ByteOf({i \in x : i < ByteWidth})

-----------------------------------------------------------------------------
(* BitRangeMap (arch.rs) *)

BitRangeMapNew(value_last, value_first, instruction_first) ==
    [value_last |-> value_last, value_first |-> value_first,
     instruction_first |-> instruction_first]

instruction_last(m) == m.instruction_first + m.value_last - m.value_first

value_len(m) == m.value_last - m.value_first + 1

\* ((1 << value_len) - 1) << self.value_first, as a release build computes it
value_bitmask(m) ==
    Shl64(LowMask(ShiftAmount(value_len(m))), ShiftAmount(m.value_first))

\* the two shifts of value_bitmask and the `>> self.value_first` of
\* encode_into overflow (a panic in a debug build)
BitmaskOverflows(m) == ShiftOverflows(value_len(m)) \/ ShiftOverflows(m.value_first)

\* bytes[instr_byte] &= !bmask; bytes[instr_byte] |= bval;
\* (the variant that stores bval over the whole byte)
EncodeByteClobber(old, bmask, bval) == bval
EncodeByte(old, bmask, bval) ==
    ByteOf((ByteBits(old) \ ByteBits(bmask)) \cup ByteBits(bval))

\* the while loop of encode_into; instr_byte >= bytes.len() panics on the
\* index, with the bytes written so far left in the buffer (a negative
\* instr_byte stands for the huge usize a negative instruction_first gives)
RECURSIVE EncodeLoop(_, _, _, _)
EncodeLoop(bytes, enc_mask, enc_value, instr_byte) ==
    IF enc_mask = {} THEN [bytes |-> bytes, panic |-> FALSE]
    ELSE IF instr_byte < 0 \/ instr_byte >= Len(bytes) THEN [bytes |-> bytes, panic |-> TRUE]
    ELSE EncodeLoop(
            [bytes EXCEPT ![instr_byte + 1] =
                EncodeByte(@, LowByte(enc_mask), LowByte(enc_value))],
            Shr64(enc_mask, ByteWidth), Shr64(enc_value, ByteWidth),
            instr_byte + 1)

\* BitRangeMap::encode_into(&self, bytes, value)
\* (the variant that masks the value without moving it down by value_first)
BitRangeEncodeUnshifted(m, bytes, value, bld) ==
    IF bld = "debug" /\ BitmaskOverflows(m) THEN [bytes |-> bytes, panic |-> TRUE]
    ELSE LET vf == ShiftAmount(m.value_first)
             enc_value0 == And64(value, Shr64(value_bitmask(m), vf))
             enc_mask0 == Shr64(value_bitmask(m), vf)
             instr_byte == m.instruction_first \div ByteWidth
             sh == m.instruction_first % ByteWidth
         IN EncodeLoop(bytes, Shl64(enc_mask0, sh), Shl64(enc_value0, sh), instr_byte)
BitRangeEncodeInto(m, bytes, value, bld) ==
    IF bld = "debug" /\ BitmaskOverflows(m) THEN [bytes |-> bytes, panic |-> TRUE]
    ELSE LET vf == ShiftAmount(m.value_first)
             enc_value0 == Shr64(And64(value, value_bitmask(m)), vf)
             enc_mask0 == Shr64(value_bitmask(m), vf)
             instr_byte == m.instruction_first \div ByteWidth
             sh == m.instruction_first % ByteWidth
         IN EncodeLoop(bytes, Shl64(enc_mask0, sh), Shl64(enc_value0, sh), instr_byte)

-----------------------------------------------------------------------------
(* InstructionField, InstructionFormat, InstructionDefinition (arch.rs).   *)
(* A field is [name, vtype, length, encoding], a format [name, fields,     *)
(* ilen], a definition [name, format_idx, args, fields]; indices into      *)
(* fields and formats are 0-based as in the source.                        *)

Max2(a, b) == IF a >= b THEN a ELSE b

RECURSIVE SeqMax(_, _)
\* iter().max().unwrap_or(dflt) over a sequence of integers
SeqMax(s, dflt) ==
    IF s = <<>> THEN dflt ELSE Max2(Head(s), SeqMax(Tail(s), Head(s)))

\* InstructionField::calculate_last_encoded_bit_index
FieldLastEncodedBitIndex(fld) ==
    SeqMax([i \in 1 .. Len(fld.encoding) |-> instruction_last(fld.encoding[i])], 0)

\* InstructionFormat::calculate_last_encoded_bit_index
FormatLastEncodedBitIndex(fields) ==
    SeqMax([i \in 1 .. Len(fields) |-> FieldLastEncodedBitIndex(fields[i])], 0)

RECURSIVE EncodeMaps(_, _, _, _, _)
\* fld.encoding.iter().for_each(|e| e.encode_into(bytes, value)), from map i
EncodeMaps(encoding, i, bytes, value, bld) ==
    IF i > Len(encoding) THEN [bytes |-> bytes, panic |-> FALSE]
    ELSE LET next(r) == IF r.panic THEN r
                        ELSE EncodeMaps(encoding, i + 1, r.bytes, value, bld)
         IN next(BitRangeEncodeInto(encoding[i], bytes, value, bld))

RECURSIVE EncodeFields(_, _, _, _, _)
\* the loop over (field index, value) pairs, from pair i
EncodeFields(fmt, pairs, i, bytes, bld) ==
    IF i > Len(pairs) THEN [bytes |-> bytes, panic |-> FALSE]
    ELSE LET next(r) == IF r.panic THEN r ELSE EncodeFields(fmt, pairs, i + 1, r.bytes, bld)
         IN next(EncodeMaps(fmt.fields[pairs[i][1] + 1].encoding, 1, bytes, pairs[i][2], bld))

\* InstructionDefinition::encode_into: the fixed fields first, then the
\* arguments zipped with argvals; a different number of argvals fails the
\* assert_eq
\* (the variant that encodes the arguments before the fixed fields)
InsnEncodeArgsFirst(insn, fmt, bytes, argvals, bld) ==
    IF Len(argvals) # Len(insn.args) THEN [bytes |-> bytes, panic |-> TRUE]
    ELSE LET zipped == [i \in 1 .. Len(insn.args) |-> <<insn.args[i], argvals[i]>>]
             fixed(r) == IF r.panic THEN r ELSE EncodeFields(fmt, insn.fields, 1, r.bytes, bld)
         IN fixed(EncodeFields(fmt, zipped, 1, bytes, bld))
InsnEncodeInto(insn, fmt, bytes, argvals, bld) ==
    IF Len(argvals) # Len(insn.args) THEN [bytes |-> bytes, panic |-> TRUE]
    ELSE LET zipped == [i \in 1 .. Len(insn.args) |-> <<insn.args[i], argvals[i]>>]
             args(r) == IF r.panic THEN r ELSE EncodeFields(fmt, zipped, 1, r.bytes, bld)
         IN args(EncodeFields(fmt, insn.fields, 1, bytes, bld))

-----------------------------------------------------------------------------
(* TOML values (the toml crate's Value): [t, v] with t the type and v the  *)
(* payload. A table is the sequence of its <<key, value>> entries in the   *)
(* order the table iterates them; its keys are distinct.                   *)

TStr(s) == [t |-> "str", v |-> s]
TInt(i) == [t |-> "int", v |-> i]
TArr(a) == [t |-> "arr", v |-> a]
TTab(e) == [t |-> "tab", v |-> e]
TNone == [t |-> "none", v |-> 0]

IsSome(x) == x.t # "none"

RECURSIVE EntryGet(_, _, _)
EntryGet(e, k, i) ==
    IF i > Len(e) THEN TNone
    ELSE IF e[i][1] = k THEN e[i][2] ELSE EntryGet(e, k, i + 1)

\* Value::get(key): the entry of a table, None on anything else
Get(val, k) == IF val.t = "tab" THEN EntryGet(val.v, k, 1) ELSE TNone

-----------------------------------------------------------------------------
(* Strings whose characters matter are sequences of one-character strings. *)

LowerChar(c) ==
    CASE c = "A" -> "a" [] c = "B" -> "b" [] c = "C" -> "c" [] c = "D" -> "d"
      [] c = "E" -> "e" [] c = "F" -> "f" [] c = "G" -> "g" [] c = "H" -> "h"
      [] c = "I" -> "i" [] c = "J" -> "j" [] c = "K" -> "k" [] c = "L" -> "l"
      [] c = "M" -> "m" [] c = "N" -> "n" [] c = "O" -> "o" [] c = "P" -> "p"
      [] c = "Q" -> "q" [] c = "R" -> "r" [] c = "S" -> "s" [] c = "T" -> "t"
      [] c = "U" -> "u" [] c = "V" -> "v" [] c = "W" -> "w" [] c = "X" -> "x"
      [] c = "Y" -> "y" [] c = "Z" -> "z" [] OTHER -> c

\* str::to_ascii_lowercase
ToAsciiLowercase(s) == [i \in 1 .. Len(s) |-> LowerChar(s[i])]

DigitVal(c) ==
    CASE c = "0" -> 0 [] c = "1" -> 1 [] c = "2" -> 2 [] c = "3" -> 3 [] c = "4" -> 4
      [] c = "5" -> 5 [] c = "6" -> 6 [] c = "7" -> 7 [] c = "8" -> 8 [] c = "9" -> 9
      [] OTHER -> -1

RECURSIVE ParseDigits(_, _, _)
ParseDigits(s, i, acc) ==
    IF i > Len(s) THEN [ok |-> TRUE, n |-> acc]
    ELSE IF DigitVal(s[i]) < 0 THEN [ok |-> FALSE, n |-> 0]
    ELSE ParseDigits(s, i + 1, 10 * acc + DigitVal(s[i]))

\* str::parse::<i32>() of a key of at most MaxKeyDigits digits: an optional
\* sign, then one digit or more
MaxKeyDigits == 4
ParseI32(s) ==
    LET signed == Len(s) > 0 /\ s[1] \in {"+", "-"}
        digits == IF signed THEN Tail(s) ELSE s
        r == ParseDigits(digits, 1, 0)
    IN IF digits = <<>> \/ Len(digits) > MaxKeyDigits \/ ~r.ok THEN [ok |-> FALSE, n |-> 0]
       ELSE [ok |-> TRUE, n |-> IF signed /\ s[1] = "-" THEN 0 - r.n ELSE r.n]

-----------------------------------------------------------------------------
(* RiscVSpec (arch.rs). A HashMap is a function on its key set. A u64 or   *)
(* usize that is not an operand value (a constant, ilen) is kept as the    *)
(* i64 with the same bits, so `as u64`, `as i64` and `as usize` keep the   *)
(* number and a negative number stands for 2^64 minus its magnitude.       *)

EmptyMap == [k \in {} |-> 0]
MapInsert(f, k, val) == [x \in (DOMAIN f) \cup {k} |-> IF x = k THEN val ELSE f[x]]

\* RiscVSpec::new()
RiscVSpecNew ==
    [loaded_names |-> <<>>, loaded_codes |-> <<>>, loaded_specs |-> <<>>,
     consts |-> EmptyMap,
     registers |-> EmptyMap, register_name_lookup |-> EmptyMap,
     instruction_formats |-> <<>>,
     instructions |-> <<>>, instruction_name_lookup |-> EmptyMap]

\* Register::new(index)
RegisterNew(index) == [index |-> index, names |-> <<>>, size_in_bits |-> 0]

\* LoadError
NoErr == [tag |-> "Ok", arg |-> <<>>]
MissingNode(p) == [tag |-> "MissingNode", arg |-> p]
BadType(p) == [tag |-> "BadType", arg |-> p]
RequirementNotFound(c) == [tag |-> "RequirementNotFound", arg |-> c]
ConstNotFound(c) == [tag |-> "ConstNotFound", arg |-> c]
DuplicateInstruction(n) == [tag |-> "DuplicateInstruction", arg |-> n]
BadInstructionFormat(p) == [tag |-> "BadInstructionFormat", arg |-> p]
\* not a LoadError: the load call panicked
LoadPanic == [tag |-> "Panic", arg |-> <<>>]

St(rv, err) == [rv |-> rv, err |-> err]
Failed(st) == st.err.tag # "Ok"

\* `x as i32` of an i64: the model's integers all lie inside the i32 range
AsI32(n) == n

\* `x as u64` of an i64, as an operand value
I64Bits(n) == IF n >= 0 THEN U64(n) ELSE BitPos \ U64((0 - n) - 1)

\* RiscVSpec::toml_int: an integer, or a string naming a constant
toml_int(consts, key, val) ==
    IF val.t = "int" THEN [err |-> NoErr, val |-> val.v]
    ELSE IF val.t = "str"
         THEN IF val.v \in DOMAIN consts THEN [err |-> NoErr, val |-> consts[val.v]]
              ELSE [err |-> ConstNotFound(val.v), val |-> 0]
    ELSE [err |-> BadType(key), val |-> 0]

\* one of the three pushes of a meta string: nothing is pushed on an error
MetaString(meta, key) ==
    LET x == Get(meta, key)
    IN IF ~IsSome(x) THEN [err |-> MissingNode(<<"meta.", key>>), val |-> ""]
       ELSE IF x.t # "str" THEN [err |-> BadType(<<"meta.", key>>), val |-> ""]
       ELSE [err |-> NoErr, val |-> x.v]

LoadMeta(rv, meta) ==
    LET n == MetaString(meta, "name")
        rv1 == [rv EXCEPT !.loaded_names = Append(@, n.val)]
        c == MetaString(meta, "code")
        rv2 == [rv1 EXCEPT !.loaded_codes = Append(@, c.val)]
        s == MetaString(meta, "spec")
        rv3 == [rv2 EXCEPT !.loaded_specs = Append(@, s.val)]
    IN IF n.err.tag # "Ok" THEN St(rv, n.err)
       ELSE IF c.err.tag # "Ok" THEN St(rv1, c.err)
       ELSE IF s.err.tag # "Ok" THEN St(rv2, s.err)
       ELSE St(rv3, NoErr)

RECURSIVE RequiresLoop(_, _, _)
RequiresLoop(rv, list, i) ==
    IF i > Len(list) THEN St(rv, NoErr)
    ELSE IF list[i].t # "str" THEN St(rv, BadType(<<"meta.requires item">>))
    ELSE IF ~(\E j \in 1 .. Len(rv.loaded_codes) : rv.loaded_codes[j] = list[i].v)
         THEN St(rv, RequirementNotFound(list[i].v))
    ELSE RequiresLoop(rv, list, i + 1)

\* validate requirements
ValidateRequires(rv, meta) ==
    LET requires == Get(meta, "requires")
    IN IF ~IsSome(requires) THEN St(rv, NoErr)
       ELSE IF requires.t # "arr" THEN St(rv, BadType(<<"meta.requires">>))
       ELSE RequiresLoop(rv, requires.v, 1)

RECURSIVE ConstsLoop(_, _, _)
ConstsLoop(rv, e, i) ==
    IF i > Len(e) THEN St(rv, NoErr)
    ELSE LET next(r) ==
                 IF r.err.tag # "Ok" THEN St(rv, r.err)
                 ELSE ConstsLoop([rv EXCEPT !.consts = MapInsert(@, e[i][1], r.val)], e, i + 1)
         IN next(toml_int(rv.consts, <<"consts.", e[i][1]>>, e[i][2]))

\* parse consts
ParseConsts(rv, consts) ==
    IF ~IsSome(consts) THEN St(rv, NoErr)
    ELSE IF consts.t # "tab" THEN St(rv, BadType(<<"consts">>))
    ELSE ConstsLoop(rv, consts.v, 1)

\* self.registers.entry(number).or_insert_with(|| Register::new(number))
RegisterEntry(registers, number) ==
    IF number \in DOMAIN registers THEN registers
    ELSE MapInsert(registers, number, RegisterNew(number))

RECURSIVE RegisterNamesExtend(_, _, _)
\* (the variant that appends the new names to the register's list)
RegisterNamesExtend(rv, e, i) ==
    IF i > Len(e) THEN St(rv, NoErr)
    ELSE LET names == e[i][2]
             entry(number, rv1) ==
                 IF ~number.ok THEN St(rv, BadType(<<"registers.names.", e[i][1], " key">>))
                 ELSE IF names.t # "arr"
                      THEN St(rv, BadType(<<"registers.names.", number.n, " value">>))
                 ELSE IF \E j \in 1 .. Len(names.v) : names.v[j].t # "str"
                      THEN St(rv1, BadType(<<"registers.names.", number.n, " element">>))
                 ELSE RegisterNamesExtend(
                         [rv1 EXCEPT !.registers[number.n].names =
                             @ \o [j \in 1 .. Len(names.v) |-> names.v[j].v]],
                         e, i + 1)
         IN entry(ParseI32(e[i][1]),
                  [rv EXCEPT !.registers = RegisterEntry(@, ParseI32(e[i][1]).n)])

RECURSIVE RegisterNamesLoop(_, _, _)
RegisterNamesLoop(rv, e, i) ==
    IF i > Len(e) THEN St(rv, NoErr)
    ELSE LET names == e[i][2]
             entry(number, rv1) ==
                 IF ~number.ok THEN St(rv, BadType(<<"registers.names.", e[i][1], " key">>))
                 ELSE IF names.t # "arr"
                      THEN St(rv, BadType(<<"registers.names.", number.n, " value">>))
                 ELSE IF \E j \in 1 .. Len(names.v) : names.v[j].t # "str"
                      THEN St(rv1, BadType(<<"registers.names.", number.n, " element">>))
                 ELSE RegisterNamesLoop(
                         [rv1 EXCEPT !.registers[number.n].names =
                             [j \in 1 .. Len(names.v) |-> names.v[j].v]],
                         e, i + 1)
         IN entry(ParseI32(e[i][1]),
                  [rv EXCEPT !.registers = RegisterEntry(@, ParseI32(e[i][1]).n)])

RECURSIVE RegisterLengthsLoop(_, _, _)
RegisterLengthsLoop(rv, e, i) ==
    IF i > Len(e) THEN St(rv, NoErr)
    ELSE LET entry(number, length, rv1) ==
                 IF ~number.ok THEN St(rv, BadType(<<"registers.lengths.", e[i][1], " key">>))
                 ELSE IF length.err.tag # "Ok" THEN St(rv, length.err)
                 ELSE RegisterLengthsLoop(
                         [rv1 EXCEPT !.registers[number.n].size_in_bits = AsI32(length.val)],
                         e, i + 1)
         IN entry(ParseI32(e[i][1]),
                  toml_int(rv.consts, <<"registers.lengths.", ParseI32(e[i][1]).n, " value">>,
                           e[i][2]),
                  [rv EXCEPT !.registers = RegisterEntry(@, ParseI32(e[i][1]).n)])

\* parse registers
ParseRegisters(rv, registers) ==
    IF ~IsSome(registers) THEN St(rv, NoErr)
    ELSE IF registers.t # "tab" THEN St(rv, BadType(<<"registers">>))
    ELSE LET register_names == Get(registers, "names")
             register_lengths == Get(registers, "lengths")
             lengths(s1) ==
                 IF Failed(s1) \/ ~IsSome(register_lengths) THEN s1
                 ELSE IF register_lengths.t # "tab"
                      THEN St(s1.rv, BadType(<<"registers.lengths">>))
                 ELSE RegisterLengthsLoop(s1.rv, register_lengths.v, 1)
         IN lengths(IF ~IsSome(register_names) THEN St(rv, NoErr)
                    ELSE IF register_names.t # "tab"
                         THEN St(rv, BadType(<<"registers.names">>))
                    ELSE RegisterNamesLoop(rv, register_names.v, 1))

RECURSIVE EncodingLoop(_, _, _, _, _)
\* the loop over a field's `encoding` array; acc is fld.encoding so far
EncodingLoop(consts, path, list, i, acc) ==
    IF i > Len(list) THEN [err |-> NoErr, val |-> acc]
    ELSE IF list[i].t # "arr" THEN [err |-> BadType(<<path, "encoding[] element">>), val |-> acc]
    ELSE IF Len(list[i].v) # 3
         THEN [err |-> BadType(<<path, "encoding[][] length (must be 3)">>), val |-> acc]
    ELSE LET subenc == list[i].v
             vend == toml_int(consts, <<path, "encoding[][]">>, subenc[1])
             vbegin == toml_int(consts, <<path, "encoding[][]">>, subenc[2])
             ibegin == toml_int(consts, <<path, "encoding[][]">>, subenc[3])
         IN IF vend.err.tag # "Ok" THEN [err |-> vend.err, val |-> acc]
            ELSE IF vbegin.err.tag # "Ok" THEN [err |-> vbegin.err, val |-> acc]
            ELSE IF ibegin.err.tag # "Ok" THEN [err |-> ibegin.err, val |-> acc]
            ELSE EncodingLoop(consts, path, list, i + 1,
                    Append(acc, BitRangeMapNew(AsI32(vend.val), AsI32(vbegin.val),
                                               AsI32(ibegin.val))))

\* one (fldname, fldtable) entry of a format table
ParseField(consts, fmtname, fldname, fldtable) ==
    LET path == <<"instruction_formats.", fmtname, ".", fldname>>
        fldtype == Get(fldtable, "type")
        lengthv == Get(fldtable, "length")
        length == toml_int(consts, <<path, ".length">>, lengthv)
        fldencoding == Get(fldtable, "encoding")
        fail(e) == [err |-> e, val |-> <<>>]
        field(enc) ==
            IF enc.err.tag # "Ok" THEN fail(enc.err)
            ELSE [err |-> NoErr,
                  val |-> [name |-> fldname,
                           vtype |-> IF fldtype.v = "register" THEN "Register" ELSE "Value",
                           length |-> AsI32(length.val),
                           encoding |-> enc.val]]
    IN IF fldtable.t # "tab" THEN fail(BadType(path))
       ELSE IF ~IsSome(fldtype) THEN fail(MissingNode(<<path, ".type">>))
       ELSE IF fldtype.t # "str" THEN fail(BadType(<<path, ".type">>))
       ELSE IF fldtype.v \notin {"value", "register"} THEN fail(BadType(<<path, ".type">>))
       ELSE IF ~IsSome(lengthv) THEN fail(MissingNode(<<path, ".length">>))
       ELSE IF length.err.tag # "Ok" THEN fail(length.err)
       ELSE IF ~IsSome(fldencoding) THEN fail(MissingNode(<<path, ".encoding">>))
       ELSE IF fldencoding.t # "arr" THEN fail(BadType(<<path, ".encoding">>))
       ELSE field(EncodingLoop(consts, path, fldencoding.v, 1, <<>>))

RECURSIVE FieldsLoop(_, _, _, _, _)
\* the loop over a format table; acc is fmt.fields so far
FieldsLoop(consts, fmtname, e, i, acc) ==
    IF i > Len(e) THEN [err |-> NoErr, val |-> acc]
    ELSE LET next(f) == IF f.err.tag # "Ok" THEN [err |-> f.err, val |-> acc]
                        ELSE FieldsLoop(consts, fmtname, e, i + 1, Append(acc, f.val))
         IN next(ParseField(consts, fmtname, e[i][1], e[i][2]))

\* fmt.ilen = fmt.calculate_last_encoded_bit_index() as usize + 1
FormatIlen(fields) == FormatLastEncodedBitIndex(fields) + 1
\* usize::MAX + 1 overflows: a panic in a debug build, 0 in a release build
FormatIlenOverflows(fields) == FormatLastEncodedBitIndex(fields) = -1

RECURSIVE FormatsLoop(_, _, _, _)
FormatsLoop(rv, e, i, bld) ==
    IF i > Len(e) THEN St(rv, NoErr)
    ELSE LET fmtname == e[i][1]
             fmttable == e[i][2]
             push(flds) ==
                 IF flds.err.tag # "Ok" THEN St(rv, flds.err)
                 ELSE IF bld = "debug" /\ FormatIlenOverflows(flds.val) THEN St(rv, LoadPanic)
                 ELSE FormatsLoop(
                         [rv EXCEPT !.instruction_formats =
                             Append(@, [name |-> fmtname, fields |-> flds.val,
                                        ilen |-> FormatIlen(flds.val)])],
                         e, i + 1, bld)
         IN IF fmttable.t # "tab" THEN St(rv, BadType(<<"instruction_formats.", fmtname>>))
            ELSE push(FieldsLoop(rv.consts, fmtname, fmttable.v, 1, <<>>))

\* parse instruction_formats
ParseInstructionFormats(rv, instruction_formats, bld) ==
    IF ~IsSome(instruction_formats) THEN St(rv, NoErr)
    ELSE IF instruction_formats.t # "tab" THEN St(rv, BadType(<<"instruction_formats">>))
    ELSE FormatsLoop(rv, instruction_formats.v, 1, bld)

RECURSIVE NamePosition(_, _, _)
\* seq.iter().position(|x| x.name == name): 0-based, -1 for None
NamePosition(seq, name, i) ==
    IF i > Len(seq) THEN -1
    ELSE IF seq[i].name = name THEN i - 1 ELSE NamePosition(seq, name, i + 1)

RECURSIVE InsnArgsLoop(_, _, _, _, _)
\* the loop over `args`; acc is insn.args so far
InsnArgsLoop(fmt, iname, list, i, acc) ==
    IF i > Len(list) THEN [err |-> NoErr, val |-> acc]
    ELSE IF list[i].t # "str"
         THEN [err |-> BadType(<<"instructions.", iname, ".args[] item">>), val |-> acc]
    ELSE LET p == NamePosition(fmt.fields, list[i].v, 1)
         IN IF p < 0
            THEN [err |-> BadInstructionFormat(<<"instructions.", iname, ".args[", list[i].v, "]">>),
                  val |-> acc]
            ELSE InsnArgsLoop(fmt, iname, list, i + 1, Append(acc, p))

RECURSIVE InsnFieldsLoop(_, _, _, _, _, _)
\* the loop over `fields`; acc is insn.fields so far
InsnFieldsLoop(consts, fmt, iname, e, i, acc) ==
    IF i > Len(e) THEN [err |-> NoErr, val |-> acc]
    ELSE LET fv == toml_int(consts, <<"instructions.", iname, ".fields[", e[i][1], "]">>, e[i][2])
             fi == NamePosition(fmt.fields, e[i][1], 1)
         IN IF fv.err.tag # "Ok" THEN [err |-> fv.err, val |-> acc]
            ELSE IF fi < 0
                 THEN [err |-> BadInstructionFormat(
                                  <<"instructions.", iname, ".fields[", e[i][1], "]">>),
                       val |-> acc]
            ELSE InsnFieldsLoop(consts, fmt, iname, e, i + 1,
                                Append(acc, <<fi, I64Bits(fv.val)>>))

\* one (iname, itable) entry of the instructions table
ParseInstruction(rv, rawname, itable) ==
    LET iname == ToAsciiLowercase(rawname)
        iformat == Get(itable, "format")
        iargs == Get(itable, "args")
        ifields == Get(itable, "fields")
        dup == iname \in DOMAIN rv.instruction_name_lookup
        rv1 == [rv EXCEPT !.instruction_name_lookup =
                              MapInsert(@, iname, Len(rv.instructions))]
        insert(format_idx, args, fields) ==
            IF args.err.tag # "Ok" THEN St(rv, args.err)
            ELSE IF fields.err.tag # "Ok" THEN St(rv, fields.err)
            ELSE IF dup THEN St(rv1, DuplicateInstruction(iname))
            ELSE St([rv1 EXCEPT !.instructions =
                        Append(@, [name |-> iname, format_idx |-> format_idx,
                                   args |-> args.val, fields |-> fields.val])],
                    NoErr)
        define(format_idx) ==
            IF format_idx < 0
            THEN St(rv, BadInstructionFormat(<<"instructions.", iname, ".format">>))
            ELSE insert(format_idx,
                        InsnArgsLoop(rv.instruction_formats[format_idx + 1], iname,
                                     iargs.v, 1, <<>>),
                        InsnFieldsLoop(rv.consts, rv.instruction_formats[format_idx + 1], iname,
                                       ifields.v, 1, <<>>))
    IN IF itable.t # "tab" THEN St(rv, BadType(<<"instructions.", iname>>))
       ELSE IF ~IsSome(iformat) THEN St(rv, MissingNode(<<"instructions.", iname, ".format">>))
       ELSE IF iformat.t # "str" THEN St(rv, BadType(<<"instructions.", iname, ".format">>))
       ELSE IF ~IsSome(iargs) THEN St(rv, MissingNode(<<"instructions.", iname, ".args">>))
       ELSE IF iargs.t # "arr" THEN St(rv, BadType(<<"instructions.", iname, ".args">>))
       ELSE IF ~IsSome(ifields) THEN St(rv, MissingNode(<<"instructions.", iname, ".fields">>))
       ELSE IF ifields.t # "tab" THEN St(rv, BadType(<<"instructions.", iname, ".fields">>))
       ELSE define(NamePosition(rv.instruction_formats, iformat.v, 1))

RECURSIVE InstructionsLoop(_, _, _)
InstructionsLoop(rv, e, i) ==
    IF i > Len(e) THEN St(rv, NoErr)
    ELSE LET next(s) == IF Failed(s) THEN s ELSE InstructionsLoop(s.rv, e, i + 1)
         IN next(ParseInstruction(rv, e[i][1], e[i][2]))

\* parse instructions
ParseInstructions(rv, instructions) ==
    IF ~IsSome(instructions) THEN St(rv, NoErr)
    ELSE IF instructions.t # "tab" THEN St(rv, BadType(<<"instructions">>))
    ELSE InstructionsLoop(rv, instructions.v, 1)

RECURSIVE NameLookupInsert(_, _, _, _)
NameLookupInsert(lookup, names, num, i) ==
    IF i > Len(names) THEN lookup
    ELSE NameLookupInsert(MapInsert(lookup, names[i], num), names, num, i + 1)

RECURSIVE NameLookupLoop(_, _, _, _)
NameLookupLoop(lookup, registers, order, i) ==
    IF i > Len(order) THEN lookup
    ELSE NameLookupLoop(NameLookupInsert(lookup, registers[order[i]].names, order[i], 1),
                        registers, order, i + 1)

\* update register name mapping: the lookup is cleared and every register's
\* names are inserted, the registers taken in the order `order` in which the
\* HashMap iterates them (any order)
UpdateRegisterNameLookup(rv, order) ==
    [rv EXCEPT !.register_name_lookup = NameLookupLoop(EmptyMap, rv.registers, order, 1)]

\* the orders in which a HashMap with key set S may iterate
IterationOrders(S) ==
    {o \in [1 .. Cardinality(S) -> S] : \A i, j \in DOMAIN o : i # j => o[i] # o[j]}

\* the sections of load_single_toml up to the instructions; the result is
\* [rv, err], err.tag = "Ok" when no section failed, and rv the state
\* reached in either case
LoadSections(rv, doc, bld) ==
    LET meta == Get(doc, "meta")
        s6(s5) == IF Failed(s5) THEN s5 ELSE ParseInstructions(s5.rv, Get(doc, "instructions"))
        s5(s4) == IF Failed(s4) THEN s4
                  ELSE s6(ParseInstructionFormats(s4.rv, Get(doc, "instruction_formats"), bld))
        s4(s3) == IF Failed(s3) THEN s3 ELSE s5(ParseRegisters(s3.rv, Get(doc, "registers")))
        s3(s2) == IF Failed(s2) THEN s2 ELSE s4(ParseConsts(s2.rv, Get(doc, "consts")))
        s2(s1) == IF Failed(s1) THEN s1 ELSE s3(ValidateRequires(s1.rv, meta))
    IN IF ~IsSome(meta) THEN St(rv, MissingNode(<<"meta">>)) ELSE s2(LoadMeta(rv, meta))

\* RiscVSpec::load_single_toml; the result is [rv, err], err.tag = "Ok" for
\* Ok(()), and rv the state the call leaves behind in either case. `order`
\* is the order in which the register map iterates at the end of this call:
\* a member of IterationOrders(DOMAIN LoadSections(rv, doc, bld).rv.registers)
LoadSingleToml(rv, doc, order, bld) ==
    LET update(s) == IF Failed(s) THEN s ELSE St(UpdateRegisterNameLookup(s.rv, order), NoErr)
    IN update(LoadSections(rv, doc, bld))

\* RiscVSpec::get_const
get_const(rv, name) ==
    IF name \in DOMAIN rv.consts THEN [some |-> TRUE, val |-> rv.consts[name]]
    ELSE [some |-> FALSE, val |-> 0]

\* RiscVSpec::get_register_by_name: the index of the register found, -1 for
\* None
get_register_by_name(rv, rname) ==
    IF rname \in DOMAIN rv.register_name_lookup
          /\ rv.register_name_lookup[rname] \in DOMAIN rv.registers
    THEN rv.register_name_lookup[rname] ELSE -1

\* the characters of a format name of the documents (a String key)
StrChars(str) ==
    CASE str = "E0" -> <<"E", "0">> [] str = "E1" -> <<"E", "1">> [] str = "E2" -> <<"E", "2">>
      [] OTHER -> <<str>>

\* RiscVSpec::get_instruction_format_by_name: the index of the format it
\* returns (0-based), -1 for None; the name is looked up in
\* instruction_name_lookup
get_instruction_format_by_name(rv, name) ==
    IF name \in DOMAIN rv.instruction_name_lookup
          /\ rv.instruction_name_lookup[name] < Len(rv.instruction_formats)
    THEN rv.instruction_name_lookup[name] ELSE -1

\* RiscVSpec::get_instruction_by_name: 0-based index, -1 for None
get_instruction_by_name(rv, name) ==
    LET lname == ToAsciiLowercase(name)
    IN IF lname \in DOMAIN rv.instruction_name_lookup
          /\ rv.instruction_name_lookup[lname] < Len(rv.instructions)
       THEN rv.instruction_name_lookup[lname]
       ELSE -1

-----------------------------------------------------------------------------
(* AST nodes (the Node enum the grammar builds and the emitter matches on) *)

Integer(val) == [tag |-> "Integer", val |-> val]
Register(rid) == [tag |-> "Register", rid |-> rid]
Argument(inner) == [tag |-> "Argument", inner |-> inner]
Label(name) == [tag |-> "Label", name |-> name]
Instruction(name, args) == [tag |-> "Instruction", name |-> name, args |-> args]
\* no rule has run yet
Unparsed == [tag |-> "Unparsed"]

-----------------------------------------------------------------------------
(* The flat binary emitter (emit/flatbin.rs) *)

\* EmitError, and the two ends that are no EmitError
EmitOk == [tag |-> "Ok", name |-> <<>>, pos |-> 0]
EmitPanic == [tag |-> "Panic", name |-> <<>>, pos |-> 0]
UnexpectedNodeType(node) == [tag |-> "UnexpectedNodeType", name |-> node.tag, pos |-> 0]
InvalidInstruction(name) == [tag |-> "InvalidInstruction", name |-> name, pos |-> 0]
InvalidArgumentCount(name) == [tag |-> "InvalidArgumentCount", name |-> name, pos |-> 0]
InvalidArgumentType(name, i) == [tag |-> "InvalidArgumentType", name |-> name, pos |-> i]
InvalidEncoding(name) == [tag |-> "InvalidEncoding", name |-> name, pos |-> 0]

DefaultIalign == 32
DefaultIlen == 32

\* (spec.get_const(name).unwrap_or(dflt) as usize + 7) / 8
ConstBytes(rv, name, dflt) ==
    LET c == get_const(rv, name)
    IN ((IF c.some THEN c.val ELSE dflt) + 7) \div ByteWidth

Zeroes(n) == [i \in 1 .. n |-> 0]

\* Vec::resize(new_len, 0) when new_len > len
Resize(buf, new_len) == buf \o Zeroes(new_len - Len(buf))

\* BinaryEmitState::accomodate_bytes: the state [out_buf, out_pos] after it;
\* the slice it returns is bytes out_pos .. end_pos - 1 of the new out_buf
accomodate_bytes(state, byte_count) ==
    LET start_pos == state.out_pos
        end_pos == start_pos + byte_count
    IN [out_buf |-> IF Len(state.out_buf) < end_pos THEN Resize(state.out_buf, end_pos)
                    ELSE state.out_buf,
        out_pos |-> end_pos]

\* `adr as usize` of the u64 of an Integer node (a small one)
AsUsize(bits) == BitsSum(bits)

\* `.org ADDRESS`
\* (the variant that moves out_pos without the resize)
EmitOrgNoGrow(state, iname, args) ==
    IF Len(args) # 1 THEN [state |-> state, res |-> InvalidArgumentCount(iname)]
    ELSE IF args[1].tag = "Integer"
         THEN [state |-> [out_buf |-> state.out_buf, out_pos |-> AsUsize(args[1].val)],
               res |-> EmitOk]
    ELSE [state |-> state, res |-> InvalidArgumentType(iname, 0)]
\* (the variant that resizes to the address whatever the length)
EmitOrgTruncate(state, iname, args) ==
    IF Len(args) # 1 THEN [state |-> state, res |-> InvalidArgumentCount(iname)]
    ELSE IF args[1].tag = "Integer"
         THEN LET new_out_pos == AsUsize(args[1].val)
              IN [state |-> [out_buf |-> IF new_out_pos > Len(state.out_buf)
                                         THEN Resize(state.out_buf, new_out_pos)
                                         ELSE SubSeq(state.out_buf, 1, new_out_pos),
                             out_pos |-> new_out_pos],
                  res |-> EmitOk]
    ELSE [state |-> state, res |-> InvalidArgumentType(iname, 0)]
EmitOrg(state, iname, args) ==
    IF Len(args) # 1 THEN [state |-> state, res |-> InvalidArgumentCount(iname)]
    ELSE IF args[1].tag = "Integer"
         THEN LET new_out_pos == AsUsize(args[1].val)
              IN [state |-> [out_buf |-> IF new_out_pos > Len(state.out_buf)
                                         THEN Resize(state.out_buf, new_out_pos)
                                         ELSE state.out_buf,
                             out_pos |-> new_out_pos],
                  res |-> EmitOk]
    ELSE [state |-> state, res |-> InvalidArgumentType(iname, 0)]

\* whether argument node `arg` has the shape a field of type vtype takes
ArgMatches(vtype, arg) ==
    /\ arg.tag = "Argument"
    /\ arg.inner.tag = (IF vtype = "Value" THEN "Integer" ELSE "Register")

\* the value pushed onto argv for a matching argument
ArgValue(arg) == IF arg.inner.tag = "Integer" THEN arg.inner.val ELSE U64(arg.inner.rid)

\* the position of the last argument of the wrong shape
LastBadArg(fmt, specinsn, args, i) ==
    LET bad == {j \in 1 .. Len(args) :
                    ~ArgMatches(fmt.fields[specinsn.args[j] + 1].vtype, args[j])}
    IN IF bad = {} THEN -1 ELSE (CHOOSE j \in bad : \A k \in bad : k <= j) - 1

RECURSIVE FirstBadArg(_, _, _, _)
\* the position of the first argument of the wrong shape, -1 if there is none
FirstBadArg(fmt, specinsn, args, i) ==
    IF i > Len(args) THEN -1
    ELSE IF ~ArgMatches(fmt.fields[specinsn.args[i] + 1].vtype, args[i]) THEN i - 1
    ELSE FirstBadArg(fmt, specinsn, args, i + 1)

\* (state.out_pos + ialign_bytes - 1) / ialign_bytes * ialign_bytes
\* (the variant that moves an aligned position on by ialign_bytes)
AlignedPosNext(pos, ialign_bytes) == ((pos \div ialign_bytes) + 1) * ialign_bytes
AlignedPos(pos, ialign_bytes) ==
    ((pos + ialign_bytes - 1) \div ialign_bytes) * ialign_bytes

\* (fmt.ilen + 7) / 8. A negative ilen stands for the usize 2^64 + ilen:
\* from -7 on the sum overflows (a panic in a debug build, the wrapped sum
\* in a release build), below that the quotient is huge
IlenBytes(ilen) == (ilen + 7) \div ByteWidth
IlenBytesOverflows(ilen) == ilen < 0 /\ ilen + 7 >= 0
IlenBytesHuge(ilen) == ilen + 7 < 0

\* the alignment, the two accomodate_bytes and encode_into of a checked
\* instruction
EmitEncoded(rv, state, specinsn, fmt, argv, ialign_bytes, bld) ==
    IF ialign_bytes = 0 THEN [state |-> state, res |-> EmitPanic]
    ELSE LET aligned_pos == AlignedPos(state.out_pos, ialign_bytes)
             encode(start, grown, enc) ==
                 [state |-> [out_buf |-> [i \in 1 .. Len(grown.out_buf) |->
                                             IF i > start /\ i <= grown.out_pos
                                             THEN enc.bytes[i - start]
                                             ELSE grown.out_buf[i]],
                             out_pos |-> grown.out_pos],
                  res |-> IF enc.panic THEN EmitPanic ELSE EmitOk]
             emit(start, grown) ==
                 encode(start, grown,
                        InsnEncodeInto(specinsn, fmt,
                                       SubSeq(grown.out_buf, start + 1, grown.out_pos),
                                       argv, bld))
             align(padded) ==
                 emit(padded.out_pos, accomodate_bytes(padded, IlenBytes(fmt.ilen)))
         IN align(IF state.out_pos # aligned_pos
                  THEN accomodate_bytes(state, aligned_pos - state.out_pos)
                  ELSE state)

\* the checks of a standard instruction, in the order of the source
\* (the variant that pads to the alignment before the length check)
EmitStandardLateCheck(rv, state, iname, args, bld) ==
    LET idx == get_instruction_by_name(rv, iname)
        specinsn == rv.instructions[idx + 1]
        fmt == rv.instruction_formats[specinsn.format_idx + 1]
        bad == FirstBadArg(fmt, specinsn, args, 1)
        argv == [i \in 1 .. Len(args) |-> ArgValue(args[i])]
        ialign_bytes == ConstBytes(rv, "IALIGN", DefaultIalign)
        max_ilen_bytes == ConstBytes(rv, "ILEN", DefaultIlen)
        fail(e) == [state |-> state, res |-> e]
        padded == accomodate_bytes(state,
                                   AlignedPos(state.out_pos, ialign_bytes) - state.out_pos)
    IN IF idx < 0 THEN fail(InvalidInstruction(iname))
       ELSE IF Len(args) # Len(specinsn.args) THEN fail(InvalidArgumentCount(iname))
       ELSE IF bad >= 0 THEN fail(InvalidArgumentType(iname, bad))
       ELSE IF bld = "debug" /\ IlenBytesOverflows(fmt.ilen) THEN fail(EmitPanic)
       ELSE IF IlenBytesHuge(fmt.ilen) \/ IlenBytes(fmt.ilen) > max_ilen_bytes
            THEN [state |-> padded, res |-> InvalidEncoding(iname)]
       ELSE EmitEncoded(rv, state, specinsn, fmt, argv, ialign_bytes, bld)
EmitStandard(rv, state, iname, args, bld) ==
    LET idx == get_instruction_by_name(rv, iname)
        specinsn == rv.instructions[idx + 1]
        fmt == rv.instruction_formats[specinsn.format_idx + 1]
        bad == FirstBadArg(fmt, specinsn, args, 1)
        argv == [i \in 1 .. Len(args) |-> ArgValue(args[i])]
        ialign_bytes == ConstBytes(rv, "IALIGN", DefaultIalign)
        max_ilen_bytes == ConstBytes(rv, "ILEN", DefaultIlen)
        fail(e) == [state |-> state, res |-> e]
    IN IF idx < 0 THEN fail(InvalidInstruction(iname))
       ELSE IF Len(args) # Len(specinsn.args) THEN fail(InvalidArgumentCount(iname))
       ELSE IF bad >= 0 THEN fail(InvalidArgumentType(iname, bad))
       ELSE IF bld = "debug" /\ IlenBytesOverflows(fmt.ilen) THEN fail(EmitPanic)
       ELSE IF IlenBytesHuge(fmt.ilen) \/ IlenBytes(fmt.ilen) > max_ilen_bytes
            THEN fail(InvalidEncoding(iname))
       ELSE EmitEncoded(rv, state, specinsn, fmt, argv, ialign_bytes, bld)

\* emit_binary_recurse on a child of the Root: [state, res], state the
\* BinaryEmitState after the call and res.tag = "Ok" for Ok(())
EmitNode(rv, state, node, bld) ==
    IF node.tag = "Label" THEN [state |-> state, res |-> EmitOk]
    ELSE IF node.tag = "Instruction"
         THEN IF node.name \in {<<".", "o", "r", "g">>, <<".", "O", "R", "G">>}
              THEN EmitOrg(state, node.name, node.args)
              ELSE EmitStandard(rv, state, node.name, node.args, bld)
    ELSE [state |-> state, res |-> UnexpectedNodeType(node)]

-----------------------------------------------------------------------------
(* ISA documents given to the loader. Tables list their keys in sorted     *)
(* order, the order in which the toml crate's table iterates.              *)

Enc(vend, vbegin, ibegin) == TArr(<<TInt(vend), TInt(vbegin), TInt(ibegin)>>)
FieldTable(type, length, encoding) ==
    TTab(<< <<"encoding", TArr(encoding)>>, <<"length", TInt(length)>>, <<"type", TStr(type)>> >>)
InsnTable(format, args, fields) ==
    TTab(<< <<"args", TArr([i \in 1 .. Len(args) |-> TStr(args[i])])>>,
            <<"fields", TTab(fields)>>, <<"format", TStr(format)>> >>)
MetaTable(name, code, spec) ==
    TTab(<< <<"code", TStr(code)>>, <<"name", TStr(name)>>, <<"spec", TStr(spec)>> >>)

FormatB ==
    TTab(<< <<"funct3", FieldTable("value", 3, <<Enc(2, 0, 12)>>)>>,
            <<"imm", FieldTable("value", 13,
                        <<Enc(12, 12, 31), Enc(10, 5, 25), Enc(4, 1, 8), Enc(11, 11, 7)>>)>>,
            <<"opcode", FieldTable("value", 7, <<Enc(6, 0, 0)>>)>>,
            <<"rs1", FieldTable("register", 5, <<Enc(4, 0, 15)>>)>>,
            <<"rs2", FieldTable("register", 5, <<Enc(4, 0, 20)>>)>> >>)
FormatC == TTab(<< <<"op", FieldTable("value", 16, <<Enc(15, 0, 0)>>)>> >>)
FormatI ==
    TTab(<< <<"funct3", FieldTable("value", 3, <<Enc(2, 0, 12)>>)>>,
            <<"imm", FieldTable("value", 12, <<Enc(11, 0, 20)>>)>>,
            <<"opcode", FieldTable("value", 7, <<Enc(6, 0, 0)>>)>>,
            <<"rd", FieldTable("register", 5, <<Enc(4, 0, 7)>>)>>,
            <<"rs1", FieldTable("register", 5, <<Enc(4, 0, 15)>>)>> >>)
FormatR ==
    TTab(<< <<"funct3", FieldTable("value", 3, <<Enc(2, 0, 12)>>)>>,
            <<"funct7", FieldTable("value", 7, <<Enc(6, 0, 25)>>)>>,
            <<"opcode", FieldTable("value", 7, <<Enc(6, 0, 0)>>)>>,
            <<"rd", FieldTable("register", 5, <<Enc(4, 0, 7)>>)>>,
            <<"rs1", FieldTable("register", 5, <<Enc(4, 0, 15)>>)>>,
            <<"rs2", FieldTable("register", 5, <<Enc(4, 0, 20)>>)>> >>)
FormatW ==
    TTab(<< <<"imm", FieldTable("value", 32, <<Enc(31, 0, 16)>>)>>,
            <<"op", FieldTable("value", 7, <<Enc(6, 0, 0)>>)>> >>)

\* the base document: no IALIGN and no ILEN constant
DocBase ==
    TTab(<< <<"meta", MetaTable("RISC-V base integer", "RV32I", "2.2")>>,
            <<"consts", TTab(<< <<"XLEN", TInt(32)>> >>)>>,
            <<"registers",
              TTab(<< <<"names",
                        TTab(<< << <<"0">>, TArr(<<TStr("x0"), TStr("zero")>>)>>,
                                << <<"1">>, TArr(<<TStr("x1"), TStr("ra")>>)>>,
                                << <<"2">>, TArr(<<TStr("x2"), TStr("sp")>>)>> >>)>>,
                      <<"lengths",
                        TTab(<< << <<"0">>, TStr("XLEN")>>, << <<"1">>, TStr("XLEN")>>,
                                << <<"2">>, TInt(32)>> >>)>> >>)>>,
            <<"instruction_formats",
              TTab(<< <<"B", FormatB>>, <<"C", FormatC>>, <<"I", FormatI>>,
                      <<"R", FormatR>>, <<"W", FormatW>> >>)>>,
            <<"instructions",
              TTab(<< << <<"a", "d", "d", "i">>,
                         InsnTable("I", <<"rd", "rs1", "imm">>,
                                   << <<"funct3", TInt(0)>>, <<"opcode", TInt(19)>> >>)>>,
                      << <<"b", "e", "q">>,
                         InsnTable("B", <<"rs1", "rs2", "imm">>,
                                   << <<"funct3", TInt(0)>>, <<"opcode", TInt(99)>> >>)>>,
                      << <<"c", ".", "n", "o", "p">>,
                         InsnTable("C", <<>>, << <<"op", TInt(1)>> >>)>>,
                      << <<"l", "w", "i", "d", "e">>,
                         InsnTable("W", <<"imm">>, << <<"op", TInt(31)>> >>)>>,
                      << <<"n", "o", "p">>,
                         InsnTable("I", <<>>,
                                   << <<"funct3", TInt(0)>>, <<"imm", TInt(0)>>,
                                      <<"opcode", TInt(19)>>, <<"rd", TInt(0)>>,
                                      <<"rs1", TInt(0)>> >>)>>,
                      << <<"x", "o", "r">>,
                         InsnTable("R", <<"rd", "rs1", "rs2">>,
                                   << <<"funct3", TInt(4)>>, <<"funct7", TInt(0)>>,
                                      <<"opcode", TInt(51)>> >>)>> >>)>> >>)

\* an extension that requires the base document, with 16-bit alignment and
\* 48-bit instructions
DocExt ==
    TTab(<< <<"meta",
              TTab(<< <<"code", TStr("C")>>, <<"name", TStr("Compressed")>>,
                      <<"requires", TArr(<<TStr("RV32I")>>)>>, <<"spec", TStr("2.0")>> >>)>>,
            <<"consts", TTab(<< <<"IALIGN", TInt(16)>>, <<"ILEN", TInt(48)>> >>)>>,
            <<"registers",
              TTab(<< <<"names",
                        TTab(<< << <<"2">>, TArr(<<TStr("x2"), TStr("stack")>>)>> >>)>> >>)>>,
            <<"instructions",
              TTab(<< << <<"C", ".", "E", "B", "R", "E", "A", "K">>,
                         InsnTable("C", <<>>, << <<"op", TInt(36866)>> >>)>> >>)>> >>)

\* formats without bit-range maps: no field at all, a field with an empty
\* encoding list, and such a field beside a mapped one
DocEmpty ==
    TTab(<< <<"meta", MetaTable("Empty formats", "E", "0.1")>>,
            <<"instruction_formats",
              TTab(<< <<"E0", TTab(<<>>)>>,
                      <<"E1", TTab(<< <<"f", FieldTable("value", 0, <<>>)>> >>)>>,
                      <<"E2", TTab(<< <<"f", FieldTable("value", 0, <<>>)>>,
                                      <<"g", FieldTable("value", 4, <<Enc(3, 0, 4)>>)>> >>)>> >>)>> >>)

\* a document whose meta table has no code
DocNoCode ==
    TTab(<< <<"meta", TTab(<< <<"name", TStr("No code")>>, <<"spec", TStr("1")>> >>)>>,
            <<"consts", TTab(<< <<"XLEN", TInt(64)>> >>)>> >>)

\* a document that names a format no document has loaded
DocBadFormat ==
    TTab(<< <<"meta", MetaTable("Bad format", "X", "1")>>,
            <<"instructions",
              TTab(<< << <<"f", "o", "o">>, InsnTable("Q", <<>>, <<>>)>> >>)>> >>)

\* a document that requires its own code
DocSelf ==
    TTab(<< <<"meta",
              TTab(<< <<"code", TStr("S")>>, <<"name", TStr("Self")>>,
                      <<"requires", TArr(<<TStr("S")>>)>>, <<"spec", TStr("1")>> >>)>> >>)

\* a document that gives two register indices the same name
DocAlias ==
    TTab(<< <<"meta", MetaTable("Alias", "A", "1")>>,
            <<"registers",
              TTab(<< <<"names",
                        TTab(<< << <<"1">>, TArr(<<TStr("x1"), TStr("tmp")>>)>>,
                                << <<"3">>, TArr(<<TStr("x3"), TStr("tmp")>>)>> >>)>> >>)>> >>)

\* a document that names a register and then fails in its instructions
DocLateFail ==
    TTab(<< <<"meta", MetaTable("Late failure", "L", "1")>>,
            <<"registers",
              TTab(<< <<"names", TTab(<< << <<"0">>, TArr(<<TStr("r0")>>)>> >>)>> >>)>>,
            <<"instructions",
              TTab(<< << <<"b", "a", "r">>, InsnTable("Q", <<>>, <<>>)>> >>)>> >>)

\* a document whose format has a map with value_last < value_first
DocBadEnc ==
    TTab(<< <<"meta", MetaTable("Bad encoding", "BE", "1")>>,
            <<"instruction_formats",
              TTab(<< <<"X", TTab(<< <<"f", FieldTable("value", 3, <<Enc(1, 3, 8)>>)>> >>)>> >>)>> >>)

\* a document that renames a register and gives it another size
DocResize ==
    TTab(<< <<"meta", MetaTable("Resize", "RS", "1")>>,
            <<"registers",
              TTab(<< <<"names", TTab(<< << <<"1">>, TArr(<<TStr("x1"), TStr("link")>>)>> >>)>>,
                      <<"lengths", TTab(<< << <<"1">>, TInt(64)>> >>)>> >>)>> >>)

Docs ==
    <<DocBase, DocExt, DocEmpty, DocNoCode, DocBadFormat, DocSelf, DocAlias, DocLateFail,
      DocBadEnc, DocResize>>

-----------------------------------------------------------------------------
(* The loader: load calls, one document each, on one RiscVSpec *)

MaxLoads == 3

LoadInit ==
    /\ build \in {"debug", "release"}
    /\ rvspec = RiscVSpecNew
    /\ rvPrev = RiscVSpecNew
    /\ loaded = <<>>
    /\ loadOks = <<>>
    /\ loadRes = NoErr
    /\ encBytes = <<>> /\ encBefore = <<>> /\ encVal = {} /\ encCalls = 0
    /\ encPrevVal = {}
    /\ encMap = BitRangeMapNew(0, 0, 0) /\ encPanic = FALSE
    /\ out_buf = <<>> /\ out_pos = 0 /\ prev = [out_buf |-> <<>>, out_pos |-> 0]
    /\ prog = <<>> /\ result = [tag |-> "Running"]
    /\ src = <<>> /\ ast = Unparsed /\ conv = <<>>

\* rv.load_single_cfg_string(Docs[d]), a panic ending the process
Load(d) ==
    /\ Len(loaded) < MaxLoads
    /\ loadRes.tag # "Panic"
    /\ \E order \in IterationOrders(DOMAIN LoadSections(rvspec, Docs[d], build).rv.registers) :
          \E r \in {LoadSingleToml(rvspec, Docs[d], order, build)} :
             /\ rvspec' = r.rv
             /\ loadRes' = r.err
             /\ loadOks' = Append(loadOks, r.err.tag = "Ok")
    /\ rvPrev' = rvspec
    /\ loaded' = Append(loaded, d)
    /\ UNCHANGED <<build, encVars, emitVars, parseVars>>

LoadNext == \E d \in 1 .. Len(Docs) : Load(d)

SpecLoad == LoadInit /\ [][LoadNext]_vars

RECURSIVE LoadAll(_, _, _)
\* the spec after loading the documents ds into rv, each load successful
LoadAll(rv0, ds, bld) ==
    IF ds = <<>> THEN rv0
    ELSE LET load(order) == LoadSingleToml(rv0, Head(ds), order, bld).rv
             order(s) == CHOOSE o \in IterationOrders(DOMAIN s.rv.registers) : TRUE
         IN LoadAll(load(order(LoadSections(rv0, Head(ds), bld))), Tail(ds), bld)

-----------------------------------------------------------------------------
(* The emitter: emit_flat_binary on a Root whose children are drawn, one   *)
(* after the other, from Stmts.                                            *)

MaxStmts == 3

Org == <<".", "o", "r", "g">>
OrgUpper == <<".", "O", "R", "G">>
Addi == <<"a", "d", "d", "i">>
AddiUpper == <<"A", "D", "D", "I">>
Xor == <<"x", "o", "r">>
Beq == <<"b", "e", "q">>
Floop == <<"f", "l", "o", "o", "p">>
CNop == <<"c", ".", "n", "o", "p">>
LWide == <<"l", "w", "i", "d", "e">>
Ovl == <<"o", "v", "l">>

RegArg(n) == Argument(Register(n))
IntArg(n) == Argument(Integer(U64(n)))
\* -4 folded to the Integer 2^64 - 4
MinusFour == BitPos \ {0, 1}

Stmts ==
    << Instruction(Addi, <<RegArg(1), RegArg(0), IntArg(1)>>),
       Instruction(Addi, <<RegArg(2), RegArg(0), IntArg(2)>>),
       Instruction(AddiUpper, <<RegArg(1), RegArg(2), IntArg(4095)>>),
       Instruction(Xor, <<RegArg(5), RegArg(6), RegArg(7)>>),
       Instruction(Beq, <<RegArg(0), RegArg(0), Argument(Integer(MinusFour))>>),
       Instruction(CNop, <<>>),
       Instruction(LWide, <<IntArg(74565)>>),
       Instruction(Org, <<Integer(U64(16))>>),
       Instruction(Org, <<Integer(U64(1))>>),
       Instruction(OrgUpper, <<Integer(U64(6))>>),
       Instruction(Org, <<IntArg(16)>>),
       Instruction(Org, <<>>),
       Instruction(Floop, <<RegArg(1), RegArg(2)>>),
       Instruction(Addi, <<RegArg(1), RegArg(0)>>),
       Instruction(Addi, <<IntArg(1), RegArg(0)>>),
       Instruction(Addi, <<IntArg(1), RegArg(0), RegArg(2)>>),
       Instruction(Addi, <<RegArg(1), RegArg(0), RegArg(2)>>),
       Instruction(LWide, <<RegArg(1)>>),
       Label(<<"l", "o", "o", "p">>),
       Integer(U64(7)),
       Instruction(Ovl, <<RegArg(5)>>) >>

\* the specs the emitter runs against: the base document alone (IALIGN and
\* ILEN default to 32), and the base document with the extension
EmitSpecs(bld) == {LoadAll(RiscVSpecNew, <<DocBase>>, bld),
                   LoadAll(RiscVSpecNew, <<DocBase, DocExt>>, bld)}

Running == [tag |-> "Running"]

EmitInit ==
    /\ build \in {"debug", "release"}
    /\ rvspec \in EmitSpecs(build)
    /\ rvPrev = RiscVSpecNew
    /\ loaded = <<>>
    /\ loadOks = <<>>
    /\ loadRes = NoErr
    /\ encBytes = <<>> /\ encBefore = <<>> /\ encVal = {} /\ encCalls = 0
    /\ encPrevVal = {}
    /\ encMap = BitRangeMapNew(0, 0, 0) /\ encPanic = FALSE
    /\ src = <<>> /\ ast = Unparsed /\ conv = <<>>
    /\ out_buf = <<>>
    /\ out_pos = 0
    /\ prev = [out_buf |-> <<>>, out_pos |-> 0]
    /\ prog = <<>>
    /\ result = Running

\* the Root loop calls emit_binary_recurse on its next child, Stmts[k]; an
\* error ends emit_flat_binary with Err(e), which carries no buffer
EmitStatement(k) ==
    /\ result.tag = "Running"
    /\ Len(prog) < MaxStmts
    /\ \E r \in {EmitNode(rvspec, [out_buf |-> out_buf, out_pos |-> out_pos], Stmts[k], build)} :
          /\ out_buf' = r.state.out_buf
          /\ out_pos' = r.state.out_pos
          /\ result' = IF r.res.tag = "Ok" THEN Running
                       ELSE IF r.res.tag = "Panic" THEN [tag |-> "Panic"]
                       ELSE [tag |-> "Err", err |-> r.res]
    /\ prev' = [out_buf |-> out_buf, out_pos |-> out_pos]
    /\ prog' = Append(prog, k)
    /\ UNCHANGED <<build, encVars, rvspec, loadVars, parseVars>>

\* the Root has no further child: emit_flat_binary returns Ok(state.out_buf)
EmitReturn ==
    /\ result.tag = "Running"
    /\ result' = [tag |-> "Ok", buf |-> out_buf]
    /\ UNCHANGED <<build, encVars, rvspec, loadVars, parseVars, out_buf, out_pos, prev, prog>>

EmitNext == (\E k \in 1 .. Len(Stmts) : EmitStatement(k)) \/ EmitReturn

Spec == EmitInit /\ [][EmitNext]_vars

\* documents that set IALIGN, or ILEN, to 0
DocZeroAlign ==
    TTab(<< <<"meta", MetaTable("Zero alignment", "ZA", "1")>>,
            <<"consts", TTab(<< <<"IALIGN", TInt(0)>> >>)>> >>)
DocZeroIlen ==
    TTab(<< <<"meta", MetaTable("Zero length", "ZL", "1")>>,
            <<"consts", TTab(<< <<"ILEN", TInt(0)>> >>)>> >>)

\* the emitter against any loaded spec: those of EmitSpecs and the base
\* document with IALIGN = 0 or ILEN = 0
EmitSpecsAnyConsts(bld) ==
    EmitSpecs(bld) \cup {LoadAll(RiscVSpecNew, <<DocBase, DocZeroAlign>>, bld),
                         LoadAll(RiscVSpecNew, <<DocBase, DocZeroIlen>>, bld)}

EmitInitAnyConsts ==
    /\ build \in {"debug", "release"}
    /\ rvspec \in EmitSpecsAnyConsts(build)
    /\ rvPrev = RiscVSpecNew
    /\ loaded = <<>>
    /\ loadOks = <<>>
    /\ loadRes = NoErr
    /\ encBytes = <<>> /\ encBefore = <<>> /\ encVal = {} /\ encCalls = 0
    /\ encPrevVal = {}
    /\ encMap = BitRangeMapNew(0, 0, 0) /\ encPanic = FALSE
    /\ src = <<>> /\ ast = Unparsed /\ conv = <<>>
    /\ out_buf = <<>>
    /\ out_pos = 0
    /\ prev = [out_buf |-> <<>>, out_pos |-> 0]
    /\ prog = <<>>
    /\ result = Running

SpecAnyConsts == EmitInitAnyConsts /\ [][EmitNext]_vars

-----------------------------------------------------------------------------
(* The encoder on its own: one map and one buffer, encode_into called with *)
(* values drawn from EncValues.                                            *)

EncBufLen == 9
MaxEncCalls == 2

EncValueFirsts == {0, 1, 5}
EncValueLens == {1, 4, 6, 12, 20, 57, 61, 64}
EncInstrFirsts == {0, 7, 8, 12, 20, 25, 31}

\* maps with value_last <= 63 whose target range lies inside the buffer
EncMaps ==
    {m \in {BitRangeMapNew(vf + n - 1, vf, ifirst) :
                vf \in EncValueFirsts, n \in EncValueLens, ifirst \in EncInstrFirsts} :
        /\ m.value_last < U64Width
        /\ instruction_last(m) < ByteWidth * EncBufLen}

EncValues == {{}, BitPos, {i \in BitPos : i % 2 = 1}, BitPos \ {0, 1},
              {0, 3, 4, 9, 13, 21, 40, 63}}

EncBuffers == {[i \in 1 .. EncBufLen |-> 0], [i \in 1 .. EncBufLen |-> 255],
               [i \in 1 .. EncBufLen |-> IF i % 2 = 0 THEN 165 ELSE 60]}

EncInit ==
    /\ build \in {"debug", "release"}
    /\ encBytes \in EncBuffers
    /\ encBefore = encBytes
    /\ encMap \in EncMaps
    /\ encVal = {}
    /\ encPrevVal = {}
    /\ encCalls = 0
    /\ encPanic = FALSE
    /\ rvspec = RiscVSpecNew
    /\ rvPrev = RiscVSpecNew /\ loaded = <<>> /\ loadOks = <<>> /\ loadRes = NoErr
    /\ src = <<>> /\ ast = Unparsed /\ conv = <<>>
    /\ out_buf = <<>> /\ out_pos = 0 /\ prev = [out_buf |-> <<>>, out_pos |-> 0]
    /\ prog = <<>> /\ result = [tag |-> "Running"]

EncodeCall(v) ==
    /\ encCalls < MaxEncCalls
    /\ ~encPanic
    /\ \E r \in {BitRangeEncodeInto(encMap, encBytes, v, build)} :
          /\ encBytes' = r.bytes
          /\ encPanic' = r.panic
    /\ encBefore' = encBytes
    /\ encVal' = v
    /\ encPrevVal' = encVal
    /\ encCalls' = encCalls + 1
    /\ UNCHANGED <<build, encMap, rvspec, loadVars, emitVars, parseVars>>

EncNext == \E v \in EncValues : EncodeCall(v)

SpecEncode == EncInit /\ [][EncNext]_vars

-----------------------------------------------------------------------------
(* Reading the buffer as a bit string: bit b of the buffer is bit b % 8 of *)
(* byte b / 8 (bit 0 = least-significant bit of byte 0).                   *)

BufBit(bytes, b) == (bytes[(b \div ByteWidth) + 1] \div (2 ^ (b % ByteWidth))) % 2 = 1

\* the target range of map m
TargetBits(m) == m.instruction_first .. instruction_last(m)

\* bits [value_last : value_first] of v, moved down to bit 0
ValueSlice(m, v) == {i - m.value_first : i \in {j \in v : j >= m.value_first /\ j <= m.value_last}}

\* the bits read back out of the target range, moved down to bit 0
ReadBack(m, bytes) == {b - m.instruction_first : b \in {c \in TargetBits(m) : BufBit(bytes, c)}}

\* C1: encode_into changes no bit of the buffer outside the target range
\* instruction_first .. instruction_first + (value_last - value_first), for
\* maps whose target range lies inside the buffer, byte-straddling ones
\* included.
C1_FrameOutsideTarget ==
    encCalls > 0 =>
        \A b \in 0 .. (ByteWidth * Len(encBytes) - 1) :
            b \notin TargetBits(encMap) => (BufBit(encBytes, b) <=> BufBit(encBefore, b))

\* a call on a map straddling a byte boundary has changed the buffer
C1_Witness ==
    /\ encCalls > 0
    /\ ~encPanic
    /\ encMap.instruction_first \div ByteWidth # instruction_last(encMap) \div ByteWidth
    /\ encBytes # encBefore

\* C2: after encode_into(bytes, v), reading the target range back yields
\* bits [value_last : value_first] of v, for every map, buffer and value.
C2_RoundTrip ==
    (encCalls > 0 /\ ~encPanic) => ReadBack(encMap, encBytes) = ValueSlice(encMap, encVal)

-----------------------------------------------------------------------------
(* The emitter's last statement *)

Handled == prog # <<>>
LastStmt == Stmts[prog[Len(prog)]]
\* the last statement returned Ok(())
Accepted == Handled /\ result.tag \in {"Running", "Ok"}
IsOrg(node) == node.tag = "Instruction" /\ node.name \in {Org, OrgUpper}
IsStandard(node) == node.tag = "Instruction" /\ ~IsOrg(node)
OrgAddress(node) ==
    BitsSum(IF node.args[1].tag = "Integer" THEN node.args[1].val ELSE node.args[1].inner.val)
IalignBytes == ConstBytes(rvspec, "IALIGN", DefaultIalign)
MaxIlenBytes == ConstBytes(rvspec, "ILEN", DefaultIlen)

\* the encodings of the well-formed statements of Stmts, from the RISC-V
\* layouts: addi x1,x0,1 = 0x00100093, addi x2,x0,2 = 0x00200113,
\* ADDI x1,x2,4095 = 0xFFF10093, xor x5,x6,x7 = 0x007342B3,
\* beq x0,x0,-4 = 0xFE000EE3, c.nop = 0x0001, lwide 74565 = 0x00012345001F
Encoding ==
    << <<147, 0, 16, 0>>, <<19, 1, 32, 0>>, <<147, 0, 241, 255>>, <<179, 66, 115, 0>>,
       <<227, 14, 0, 254>>, <<1, 0>>, <<31, 0, 69, 35, 1, 0>> >>

\* C3: a standard instruction emitted while out_pos is not a multiple of
\* ialign_bytes starts at the next multiple of ialign_bytes, and the
\* (ialign_bytes - out_pos mod ialign_bytes) mod ialign_bytes bytes between
\* the old out_pos and that start are all zero in the buffer.
C3_ZeroPadding ==
    (Accepted /\ IsStandard(LastStmt) /\ prev.out_pos % IalignBytes # 0) =>
        LET pad == (IalignBytes - (prev.out_pos % IalignBytes)) % IalignBytes
            start == prev.out_pos + pad
        IN /\ SubSeq(out_buf, start + 1, out_pos) = Encoding[prog[Len(prog)]]
           /\ \A i \in (prev.out_pos + 1) .. start : out_buf[i] = 0

\* C4: `.org` / `.ORG` with the one argument Argument(Integer(a)) is accepted
\* and sets out_pos = a.
C4_OrgArgumentAccepted ==
    (/\ Handled
     /\ IsOrg(LastStmt)
     /\ Len(LastStmt.args) = 1
     /\ LastStmt.args[1].tag = "Argument"
     /\ LastStmt.args[1].inner.tag = "Integer") =>
        (Accepted /\ out_pos = OrgAddress(LastStmt))

\* C5: an accepted `.org A` with A greater than the buffer length leaves a
\* buffer of length A whose old bytes are unchanged and whose new bytes are
\* zero; with A at most the buffer length it leaves the buffer as it was;
\* out_pos = A either way.
C5_OrgGrowsZeroFilled ==
    (Accepted /\ IsOrg(LastStmt)) =>
        LET A == OrgAddress(LastStmt)
            old == prev.out_buf
        IN /\ out_pos = A
           /\ IF A > Len(old)
              THEN /\ Len(out_buf) = A
                   /\ SubSeq(out_buf, 1, Len(old)) = old
                   /\ \A i \in (Len(old) + 1) .. A : out_buf[i] = 0
              ELSE out_buf = old

\* an accepted `.org` has grown a buffer that held an instruction
C5_Witness ==
    /\ Accepted
    /\ IsOrg(LastStmt)
    /\ \E i \in 1 .. Len(prev.out_buf) : prev.out_buf[i] # 0
    /\ OrgAddress(LastStmt) > Len(prev.out_buf)

BeqMinusFour == Instruction(Beq, <<RegArg(0), RegArg(0), Argument(Integer(MinusFour))>>)
\* the four bytes just written
LastWord == SubSeq(out_buf, out_pos - 3, out_pos)

\* C6 as claimed: `beq x0,x0,-4` with the operand the Integer 2^64 - 4 is
\* emitted as 0xFE000CE3, the bytes E3 0C 00 FE.
C6_BeqAsClaimed ==
    (Handled /\ LastStmt = BeqMinusFour) => (Accepted /\ LastWord = <<227, 12, 0, 254>>)

\* C6: `beq x0,x0,-4` with the operand the Integer 2^64 - 4 is emitted as
\* 0xFE000EE3, the bytes E3 0E 00 FE (imm[4:1] = 1110 lands in bits 11:8).
C6_BeqMinusFour ==
    (Handled /\ LastStmt = BeqMinusFour) => (Accepted /\ LastWord = <<227, 14, 0, 254>>)

C6_Witness == Accepted /\ LastStmt = BeqMinusFour /\ out_pos >= 8

\* the statements whose instruction has a 32-bit format
Word32 == {k \in 1 .. Len(Encoding) : Len(Encoding[k]) = 4}
NoAlignConsts == ~get_const(rvspec, "IALIGN").some /\ ~get_const(rvspec, "ILEN").some

\* C7: n instruction statements with 32-bit formats and no .org, under
\* IALIGN = ILEN = 32, are all accepted, and the returned buffer has length
\* 4n with the i-th instruction's little-endian encoding in bytes
\* 4i .. 4i+3, in source order.
C7_SequentialLayout ==
    (NoAlignConsts /\ \A i \in 1 .. Len(prog) : prog[i] \in Word32) =>
        /\ result.tag \in {"Running", "Ok"}
        /\ result.tag = "Ok" =>
              /\ Len(result.buf) = 4 * Len(prog)
              /\ \A i \in 1 .. Len(prog) :
                    SubSeq(result.buf, 4 * (i - 1) + 1, 4 * i) = Encoding[prog[i]]

\* `addi x1,x0,1` then `addi x2,x0,2` has returned 93 00 10 00 13 01 20 00
C7_Witness ==
    /\ NoAlignConsts
    /\ prog = <<1, 2>>
    /\ result.tag = "Ok"
    /\ result.buf = <<147, 0, 16, 0, 19, 1, 32, 0>>

\* the instructions of the loaded spec with the lowercase of `name`
Named(name) ==
    {i \in 1 .. Len(rvspec.instructions) : rvspec.instructions[i].name = ToAsciiLowercase(name)}
\* the argument positions (0-based) of `node` whose shape is not the one the
\* field of the instruction takes
BadPositions(node, insn, fmt) ==
    {i \in 0 .. (Len(node.args) - 1) :
        LET arg == node.args[i + 1]
            want == IF fmt.fields[insn.args[i + 1] + 1].vtype = "Value"
                    THEN "Integer" ELSE "Register"
        IN ~(arg.tag = "Argument" /\ arg.inner.tag = want)}
Least(S) == CHOOSE x \in S : \A y \in S : x <= y
\* what the order name, count, type, length decides for a standard
\* instruction node
Decision(node) ==
    IF Named(node.name) = {} THEN InvalidInstruction(node.name)
    ELSE LET insn == rvspec.instructions[Least(Named(node.name))]
             fmt == rvspec.instruction_formats[insn.format_idx + 1]
         IN IF Len(node.args) # Len(insn.args) THEN InvalidArgumentCount(node.name)
            ELSE IF BadPositions(node, insn, fmt) # {}
                 THEN InvalidArgumentType(node.name, Least(BadPositions(node, insn, fmt)))
            ELSE IF (fmt.ilen + 7) \div ByteWidth > MaxIlenBytes
                 THEN InvalidEncoding(node.name)
            ELSE EmitOk

\* C8: a standard instruction is checked in the order name (lowercase),
\* argument count, argument shapes from position 0 up, encoded length; the
\* first failing check decides the error, and with none failing the
\* instruction is emitted.
C8_CheckOrder ==
    (Handled /\ IsStandard(LastStmt)) =>
        IF result.tag = "Err" THEN result.err = Decision(LastStmt)
        ELSE Accepted /\ Decision(LastStmt) = EmitOk

\* `addi 1,x0,x2`, wrong at positions 0 and 2, has failed on position 0
C8_Witness ==
    /\ Handled
    /\ IsStandard(LastStmt)
    /\ result.tag = "Err"
    /\ result.err = InvalidArgumentType(Addi, 0)
    /\ LastStmt.args[3].inner.tag = "Register"

\* C9: a statement that fails with an EmitError leaves out_buf and out_pos
\* as they were before it, no later statement is processed, and the result
\* is the error without a buffer; `floop x1,x2` fails with
\* InvalidInstruction("floop").
C9_FailureWritesNothing ==
    result.tag = "Err" =>
        /\ out_buf = prev.out_buf
        /\ out_pos = prev.out_pos
        /\ DOMAIN result = {"tag", "err"}
        /\ ~ENABLED EmitNext
        /\ LastStmt = Instruction(Floop, <<RegArg(1), RegArg(2)>>) =>
              result.err = InvalidInstruction(Floop)

\* a statement has failed where alignment padding was due: out_pos is not a
\* multiple of ialign_bytes and the buffer holds earlier output
C9_Witness ==
    /\ result.tag = "Err"
    /\ IsStandard(LastStmt)
    /\ out_buf # <<>>
    /\ out_pos % IalignBytes # 0

-----------------------------------------------------------------------------
(* The loaded formats *)

\* the last instruction bit of every bit-range map of format f
MapLasts(f) ==
    UNION {{instruction_last(f.fields[i].encoding[j]) : j \in 1 .. Len(f.fields[i].encoding)} :
              i \in 1 .. Len(f.fields)}
Greatest(S) == CHOOSE x \in S : \A y \in S : y <= x

\* C10: every stored format has ilen = 1 + the greatest last instruction bit
\* of its bit-range maps, and a format without any bit-range map has
\* ilen = 0.
C10_IlenFromMaps ==
    \A k \in 1 .. Len(rvspec.instruction_formats) :
        LET f == rvspec.instruction_formats[k]
        IN f.ilen = IF MapLasts(f) = {} THEN 0 ELSE 1 + Greatest(MapLasts(f))

-----------------------------------------------------------------------------
(* The last load call *)

LastDoc == Docs[loaded[Len(loaded)]]
\* the string under `key` of the meta table of doc, "" without one
MetaOf(doc, key) ==
    IF IsSome(Get(doc, "meta")) /\ Get(Get(doc, "meta"), key).t = "str"
    THEN Get(Get(doc, "meta"), key).v ELSE ""
\* the documents have a name, a code and a spec
WellFormedMeta(doc) == \A key \in {"name", "code", "spec"} : MetaOf(doc, key) # ""
\* meta.requires of doc, a list of strings in every document of Docs
RequiresOf(doc) ==
    IF IsSome(Get(Get(doc, "meta"), "requires"))
    THEN [j \in 1 .. Len(Get(Get(doc, "meta"), "requires").v) |->
              Get(Get(doc, "meta"), "requires").v[j].v]
    ELSE <<>>
\* the codes of the documents loaded by the load calls before the last
EarlierCodes ==
    {MetaOf(Docs[loaded[i]], "code") : i \in {j \in 1 .. (Len(loaded) - 1) : loadOks[j]}}

\* C11: a document whose meta.requires lists a code that no document loaded
\* by an earlier call has fails with RequirementNotFound of that code; the
\* document being loaded does not count.
C11_RequiresEarlier ==
    (loaded # <<>> /\ WellFormedMeta(LastDoc)) =>
        LET req == RequiresOf(LastDoc)
            missing == {j \in 1 .. Len(req) : req[j] \notin EarlierCodes}
        IN missing # {} =>
              loadRes = RequirementNotFound(req[CHOOSE j \in missing : \A k \in missing : j <= k])

\* C12: after any sequence of load calls every name of every register
\* resolves to that register through get_register_by_name.
C12_NameLookup ==
    \A i \in DOMAIN rvspec.registers :
        \A k \in 1 .. Len(rvspec.registers[i].names) :
            get_register_by_name(rvspec, rvspec.registers[i].names[k]) = i

-----------------------------------------------------------------------------
(* The emitter against any loaded spec *)

\* C13: for every loaded spec, IALIGN = 0 and ILEN = 0 included, and every
\* AST, emit_flat_binary ends with Ok(buffer) or an EmitError, never with a
\* panic.
C13_NeverPanics == result.tag # "Panic"

-----------------------------------------------------------------------------
(* The loaded fields *)

\* every field of every format of the spec
LoadedFields ==
    UNION {{rvspec.instruction_formats[k].fields[i] :
                i \in 1 .. Len(rvspec.instruction_formats[k].fields)} :
              k \in 1 .. Len(rvspec.instruction_formats)}

\* C14: after a successful load every field holds a non-empty list of
\* bit-range maps, each with value_last >= value_first >= 0 and
\* instruction_first >= 0.
C14_MapsWellFormed ==
    (loaded # <<>> /\ loadRes.tag = "Ok") =>
        \A fld \in LoadedFields :
            /\ Len(fld.encoding) > 0
            /\ \A j \in 1 .. Len(fld.encoding) :
                  /\ fld.encoding[j].value_last >= fld.encoding[j].value_first
                  /\ fld.encoding[j].value_first >= 0
                  /\ fld.encoding[j].instruction_first >= 0

-----------------------------------------------------------------------------
(* The output buffer's length *)

\* C15: the emitter never shrinks its output buffer: from one statement to
\* the next the length of out_buf does not decrease, whatever the statement
\* (a Label, a .org to a higher, equal or lower address, an instruction).
C15_NeverShrinks == [][Len(out_buf') >= Len(out_buf)]_vars

\* a .org to an address below the end of the buffer was accepted
C15_Witness ==
    /\ Accepted
    /\ IsOrg(LastStmt)
    /\ OrgAddress(LastStmt) < Len(prev.out_buf)
    /\ out_pos = OrgAddress(LastStmt)
    /\ out_buf = prev.out_buf

-----------------------------------------------------------------------------
(* Repeated encode_into calls *)

\* the buffer with every bit of the target range of m set to `fill`
WithTarget(m, bytes, fill) ==
    [k \in 1 .. Len(bytes) |->
        ByteOf({b \in 0 .. (ByteWidth - 1) :
                   IF (ByteWidth * (k - 1) + b) \in TargetBits(m) THEN fill
                   ELSE b \in ByteBits(bytes[k])})]

\* two encode_into calls in a row with the same value: the second changes
\* nothing
C16_SecondCallNoChange ==
    (encCalls = 2 /\ ~encPanic /\ encVal = encPrevVal) => encBytes = encBefore

\* the buffer after the call is the one the call gives on the buffer with
\* its target range cleared, and on the one with its target range set
C16_ReplacesTarget ==
    (encCalls > 0 /\ ~encPanic) =>
        \A fill \in BOOLEAN :
            encBytes = BitRangeEncodeInto(encMap, WithTarget(encMap, encBefore, fill),
                                          encVal, build).bytes

\* C16: encode_into is idempotent: two calls in a row with the same value
\* leave the buffer as one call does, and a later call with another value
\* fully replaces the earlier bits (its result does not depend on the bits
\* previously in the target range).
C16_Idempotent == C16_SecondCallNoChange /\ C16_ReplacesTarget

-----------------------------------------------------------------------------
(* An instruction whose operand and fixed field share a format field *)

\* `ovl rd`: format I with rd both an operand and a fixed field of value 31
DocOverlap ==
    TTab(<< <<"meta", MetaTable("Overlap", "OV", "1")>>,
            <<"instructions",
              TTab(<< << Ovl,
                         InsnTable("I", <<"rd">>,
                                   << <<"funct3", TInt(0)>>, <<"imm", TInt(0)>>,
                                      <<"opcode", TInt(19)>>, <<"rd", TInt(31)>>,
                                      <<"rs1", TInt(0)>> >>)>> >>)>> >>)

EmitInitOverlap ==
    /\ build \in {"debug", "release"}
    /\ rvspec = LoadAll(RiscVSpecNew, <<DocBase, DocOverlap>>, build)
    /\ rvPrev = RiscVSpecNew
    /\ loaded = <<>>
    /\ loadOks = <<>>
    /\ loadRes = NoErr
    /\ encBytes = <<>> /\ encBefore = <<>> /\ encVal = {} /\ encCalls = 0
    /\ encPrevVal = {}
    /\ encMap = BitRangeMapNew(0, 0, 0) /\ encPanic = FALSE
    /\ src = <<>> /\ ast = Unparsed /\ conv = <<>>
    /\ out_buf = <<>>
    /\ out_pos = 0
    /\ prev = [out_buf |-> <<>>, out_pos |-> 0]
    /\ prog = <<>>
    /\ result = Running

SpecOverlap == EmitInitOverlap /\ [][EmitNext]_vars

OvlFive == Instruction(Ovl, <<RegArg(5)>>)

\* C17: InstructionDefinition::encode_into encodes the fixed fields first
\* and the operands afterwards, so where a fixed field and an operand map
\* onto the same instruction bits the buffer holds the operand's bits:
\* `ovl x5`, with rd fixed to 31 and rd the operand, is emitted as
\* 0x00000293 (rd = 5), the bytes 93 02 00 00.
C17_OperandWins ==
    (Accepted /\ LastStmt = OvlFive) => LastWord = <<147, 2, 0, 0>>

\* `ovl x5` was emitted by a definition whose operand names a field that a
\* fixed pair sets to another value
C17_Witness ==
    /\ Accepted
    /\ LastStmt = OvlFive
    /\ \E n \in Named(Ovl) :
          \E i \in 1 .. Len(rvspec.instructions[n].fields) :
              /\ rvspec.instructions[n].fields[i][1] = rvspec.instructions[n].args[1]
              /\ rvspec.instructions[n].fields[i][2] # U64(5)

-----------------------------------------------------------------------------
(* Renaming a register *)

\* the entries of table `key` of the registers section of doc
RegisterTable(doc, key) ==
    IF IsSome(Get(doc, "registers")) /\ IsSome(Get(Get(doc, "registers"), key))
    THEN Get(Get(doc, "registers"), key).v ELSE <<>>

\* the names the spec rv holds, over all registers
AllNames(rv) ==
    UNION {{rv.registers[n].names[j] : j \in 1 .. Len(rv.registers[n].names)} :
              n \in DOMAIN rv.registers}

\* the entries of registers.names of the last document whose index an
\* earlier document defined
Renamed ==
    {e \in 1 .. Len(RegisterTable(LastDoc, "names")) :
        ParseI32(RegisterTable(LastDoc, "names")[e][1]).n \in DOMAIN rvPrev.registers}

\* C18: when a successfully loaded document gives registers.names for an
\* index that an earlier document defined, the register's name list is
\* exactly the new list, its size is kept unless the document gives
\* registers.lengths for the index too, and every old name that is in no
\* register's current list no longer resolves through get_register_by_name.
C18_NamesReplaced ==
    (loaded # <<>> /\ loadRes.tag = "Ok") =>
        \A e \in Renamed :
            LET entry == RegisterTable(LastDoc, "names")[e]
                i == ParseI32(entry[1]).n
                old == rvPrev.registers[i]
                lengths == RegisterTable(LastDoc, "lengths")
            IN /\ rvspec.registers[i].names =
                      [j \in 1 .. Len(entry[2].v) |-> entry[2].v[j].v]
               /\ (\A k \in 1 .. Len(lengths) : ParseI32(lengths[k][1]).n # i) =>
                      rvspec.registers[i].size_in_bits = old.size_in_bits
               /\ \A j \in 1 .. Len(old.names) :
                      old.names[j] \notin AllNames(rvspec) =>
                          get_register_by_name(rvspec, old.names[j]) = -1

\* a successful load has renamed a register, and a name of its old list
\* that resolved before resolves no longer
C18_Witness ==
    /\ loaded # <<>>
    /\ loadRes.tag = "Ok"
    /\ \E e \in Renamed :
          LET i == ParseI32(RegisterTable(LastDoc, "names")[e][1]).n
          IN \E j \in 1 .. Len(rvPrev.registers[i].names) :
                /\ get_register_by_name(rvPrev, rvPrev.registers[i].names[j]) = i
                /\ get_register_by_name(rvspec, rvPrev.registers[i].names[j]) = -1

-----------------------------------------------------------------------------
(* Node::parse_u64 and Node::simplify, as the specification describes them *)
(* (crate::parser::Node is not among the sources).                         *)

Negation(x) == [tag |-> "Negation", x |-> x]
Binary(tag, x, y) == [tag |-> tag, x |-> x, y |-> y]
Identifier(name) == [tag |-> "Identifier", name |-> name]
PcValue == [tag |-> "PcValue"]
\* what the conversion makes of a digit string without a digit (unspecified)
NoDigits == [tag |-> "NoDigits"]

BinaryTags == {"Shl", "Shr", "Ashr", "Plus", "Minus", "Times", "Divide"}

\* the i64 with the bits of a u64 of small magnitude, and back
Signed(bits) ==
    IF (U64Width - 1) \in bits THEN 0 - BitsSum(BitPos \ bits) - 1 ELSE BitsSum(bits)
Wrap64(i) == IF i >= 0 THEN U64(i) ELSE BitPos \ U64(0 - i - 1)

\* the value of a digit in a radix up to 16, -1 for any other character
RadixDigit(c) ==
    CASE LowerChar(c) = "a" -> 10 [] LowerChar(c) = "b" -> 11 [] LowerChar(c) = "c" -> 12
      [] LowerChar(c) = "d" -> 13 [] LowerChar(c) = "e" -> 14 [] LowerChar(c) = "f" -> 15
      [] OTHER -> DigitVal(c)

NotUnderscore(c) == c # "_"

RECURSIVE FromStrRadix(_, _, _, _)
FromStrRadix(d, radix, i, acc) ==
    IF i > Len(d) THEN acc ELSE FromStrRadix(d, radix, i + 1, radix * acc + RadixDigit(d[i]))

\* Node::parse_u64(n, radix): the underscores are stripped and the rest is
\* converted (digit strings of small value)
ParseU64(n, radix) ==
    IF SelectSeq(n, NotUnderscore) = <<>> THEN NoDigits
    ELSE Integer(U64(FromStrRadix(SelectSeq(n, NotUnderscore), radix, 1, 0)))

\* the wrapping operation of a binary node on two u64 (operands of small
\* magnitude; a divisor that is not 0; a shift amount below 64)
FoldBinary(tag, x, y) ==
    CASE tag = "Plus" -> Wrap64(Signed(x) + Signed(y))
      [] tag = "Minus" -> Wrap64(Signed(x) - Signed(y))
      [] tag = "Times" -> Wrap64(Signed(x) * Signed(y))
      [] tag = "Divide" -> Wrap64(Signed(x) \div Signed(y))
      [] tag = "Shl" -> Shl64(x, Signed(y))
      [] tag = "Shr" -> Shr64(x, Signed(y))
      [] tag = "Ashr" -> Shr64(x, Signed(y)) \cup
                             (IF (U64Width - 1) \in x THEN (U64Width - Signed(y)) .. (U64Width - 1)
                              ELSE {})

\* Node::simplify: a negation of an Integer and a binary node of two
\* Integers become an Integer; any other node is left as it is
Simplify(n) ==
    IF n.tag = "Negation" /\ n.x.tag = "Integer" THEN Integer(Wrap64(0 - Signed(n.x.val)))
    ELSE IF n.tag \in BinaryTags /\ n.x.tag = "Integer" /\ n.y.tag = "Integer"
         THEN Integer(FoldBinary(n.tag, n.x.val, n.y.val))
    ELSE n

-----------------------------------------------------------------------------
(* The grammar (grammar.rs). A rule takes the text s and a position pos    *)
(* (1-based) and gives [ok, pos, node, conv]: whether it matched, the      *)
(* position after the match, its node, and the [digits, radix] pairs its   *)
(* actions handed to Node::parse_u64, those of attempts that failed        *)
(* afterwards included.                                                    *)

RuleMatched(pos, node, cv) == [ok |-> TRUE, pos |-> pos, node |-> node, conv |-> cv]
RuleFailed(pos, cv) == [ok |-> FALSE, pos |-> pos, node |-> Unparsed, conv |-> cv]

\* a literal at pos
HasPrefix(s, pos, lit) ==
    pos + Len(lit) - 1 <= Len(s) /\ SubSeq(s, pos, pos + Len(lit) - 1) = lit

RECURSIVE RunEnd(_, _, _)
\* [class]*: the position after the run of characters of class at pos
RunEnd(s, pos, class) ==
    IF pos <= Len(s) /\ s[pos] \in class THEN RunEnd(s, pos + 1, class) ELSE pos

DecDigits == {"0", "1", "2", "3", "4", "5", "6", "7", "8", "9"}
HexDigits == DecDigits \cup {"a", "b", "c", "d", "e", "f", "A", "B", "C", "D", "E", "F"}
OctDigits == {"0", "1", "2", "3", "4", "5", "6", "7"}
BinDigits == {"0", "1"}
Letters ==
    {"a", "b", "c", "d", "e", "f", "g", "h", "i", "j", "k", "l", "m", "n", "o", "p", "q",
     "r", "s", "t", "u", "v", "w", "x", "y", "z", "A", "B", "C", "D", "E", "F", "G", "H",
     "I", "J", "K", "L", "M", "N", "O", "P", "Q", "R", "S", "T", "U", "V", "W", "X", "Y",
     "Z"}

\* whitespace()?, over texts without comments and line continuations
SkipWhitespace(s, pos) == RunEnd(s, pos, {" ", "\r", "\t"})

\* n:$([class | '_']+) { Node::parse_u64(n, radix) } at pos
DigitSection(s, pos, from, class, radix) ==
    LET end == RunEnd(s, from, class \cup {"_"})
    IN IF end = from THEN RuleFailed(pos, <<>>)
       ELSE RuleMatched(end, ParseU64(SubSeq(s, from, end - 1), radix),
                        <<[digits |-> SubSeq(s, from, end - 1), radix |-> radix]>>)

\* rule integer
integer(s, pos) ==
    IF HasPrefix(s, pos, <<"0", "x">>) /\ DigitSection(s, pos, pos + 2, HexDigits, 16).ok
    THEN DigitSection(s, pos, pos + 2, HexDigits, 16)
    ELSE IF HasPrefix(s, pos, <<"0", "o">>) /\ DigitSection(s, pos, pos + 2, OctDigits, 8).ok
    THEN DigitSection(s, pos, pos + 2, OctDigits, 8)
    ELSE IF HasPrefix(s, pos, <<"0", "b">>) /\ DigitSection(s, pos, pos + 2, BinDigits, 2).ok
    THEN DigitSection(s, pos, pos + 2, BinDigits, 2)
    ELSE IF HasPrefix(s, pos, <<"0", "d">>)
    THEN DigitSection(s, pos, pos + 2, DecDigits, 10)
    ELSE DigitSection(s, pos, pos, DecDigits, 10)

\* rule identifier: idstr with no register of the spec rv at pos
identifier(rv, s, pos) ==
    LET end == RunEnd(s, pos + 1, Letters \cup DecDigits \cup {".", "_"})
    IN IF pos > Len(s) \/ s[pos] \notin (Letters \cup {".", "_"}) THEN RuleFailed(pos, <<>>)
       ELSE IF get_register_by_name(rv, SubSeq(s, pos, end - 1)) # -1
            THEN RuleFailed(pos, <<>>)
       ELSE RuleMatched(end, Identifier(SubSeq(s, pos, end - 1)), <<>>)

\* the operators of rule expression, lowest level first, in the order the
\* rule lists them
Operators ==
    << [lit |-> <<"<", "<">>, tag |-> "Shl", prec |-> 0],
       [lit |-> <<">", ">">>, tag |-> "Shr", prec |-> 0],
       [lit |-> <<">", ">", ">">>, tag |-> "Ashr", prec |-> 0],
       [lit |-> <<"+">>, tag |-> "Plus", prec |-> 1],
       [lit |-> <<"-">>, tag |-> "Minus", prec |-> 1],
       [lit |-> <<"*">>, tag |-> "Times", prec |-> 2],
       [lit |-> <<"/">>, tag |-> "Divide", prec |-> 2] >>

RECURSIVE expr_atom(_, _, _)
RECURSIVE InfixParse(_, _, _, _)
RECURSIVE InfixLoop(_, _, _, _, _, _, _)

\* rule expression: precedence climbing from level 0
expression(rv, s, pos) == InfixParse(rv, s, pos, 0)

\* rule negation, then the rest of the alternative of expr_atom
NegationAtom(rv, s, pos) ==
    IF ~HasPrefix(s, pos, <<"-">>) THEN RuleFailed(pos, <<>>)
    ELSE LET done(e) == IF ~e.ok THEN RuleFailed(pos, e.conv)
                        ELSE RuleMatched(SkipWhitespace(s, e.pos), Simplify(Negation(e.node)),
                                         e.conv)
         IN done(expression(rv, s, pos + 1))

\* "(" whitespace()? e:expression() whitespace()? ")" whitespace()?
ParenAtom(rv, s, pos) ==
    IF ~HasPrefix(s, pos, <<"(">>) THEN RuleFailed(pos, <<>>)
    ELSE LET done(e) ==
                 IF e.ok /\ HasPrefix(s, SkipWhitespace(s, e.pos), <<")">>)
                 THEN RuleMatched(SkipWhitespace(s, SkipWhitespace(s, e.pos) + 1),
                                  Simplify(e.node), e.conv)
                 ELSE RuleFailed(pos, e.conv)
         IN done(expression(rv, s, SkipWhitespace(s, pos + 1)))

\* rule expr_atom: the first alternative that matches after the leading
\* whitespace (texts without a quote: the character literal never matches)
expr_atom(rv, s, pos) ==
    LET p == SkipWhitespace(s, pos)
        trail(r) == IF r.ok THEN [r EXCEPT !.pos = SkipWhitespace(s, r.pos)] ELSE r
        dollar == IF HasPrefix(s, p, <<"$">>)
                  THEN RuleMatched(SkipWhitespace(s, p + 1), PcValue, <<>>)
                  ELSE RuleFailed(pos, <<>>)
        after_int(cv) ==
            IF integer(s, p).ok THEN trail([integer(s, p) EXCEPT !.conv = cv \o @])
            ELSE IF identifier(rv, s, p).ok THEN trail([identifier(rv, s, p) EXCEPT !.conv = cv])
            ELSE [dollar EXCEPT !.conv = cv]
        after_neg(cv, n) == IF n.ok THEN [n EXCEPT !.conv = cv \o @]
                            ELSE after_int(cv \o n.conv)
        after_paren(e) == IF e.ok THEN e ELSE after_neg(e.conv, NegationAtom(rv, s, p))
    IN after_paren(ParenAtom(rv, s, p))

\* the atom, then the operator loop
InfixParse(rv, s, pos, min_prec) ==
    LET loop(a) == IF ~a.ok THEN a ELSE InfixLoop(rv, s, a.pos, a.node, a.conv, min_prec, 1)
    IN loop(expr_atom(rv, s, pos))

\* the operator loop with x parsed up to pos: operator k is tried when its
\* level is at least min_prec; its right operand is parsed one level up, and
\* when that fails the next operator is tried
InfixLoop(rv, s, pos, x, cv, min_prec, k) ==
    IF k > Len(Operators) THEN RuleMatched(pos, x, cv)
    ELSE IF Operators[k].prec >= min_prec /\ HasPrefix(s, pos, Operators[k].lit)
    THEN LET rhs(y) ==
                 IF y.ok
                 THEN InfixLoop(rv, s, y.pos, Simplify(Binary(Operators[k].tag, x, y.node)),
                                cv \o y.conv, min_prec, 1)
                 ELSE InfixLoop(rv, s, pos, x, cv \o y.conv, min_prec, k + 1)
         IN rhs(InfixParse(rv, s, pos + Len(Operators[k].lit), Operators[k].prec + 1))
    ELSE InfixLoop(rv, s, pos, x, cv, min_prec, k + 1)

-----------------------------------------------------------------------------
(* Parsing expressions: the texts are one to MaxTerms operands joined by   *)
(* operators, with or without blanks around the operators.                 *)

MaxTerms == 3

Literals == {<<"1">>, <<"2">>, <<"4">>}
Underscores == {<<"0", "x", "_">>, <<"0", "b", "_", "_">>, <<"0", "d", "_">>, <<"_">>}
Operands ==
    Literals \cup {<<"-">> \o l : l \in Literals} \cup Underscores \cup {<<"0", "x", "1", "_">>}
OperatorChars == {<<"+">>, <<"-">>, <<"*">>}

RECURSIVE Text(_, _, _, _)
\* terms[i], terms[i + 1], ... joined by ops[i], ops[i + 1], ... with sep
\* around each operator
Text(terms, ops, sep, i) ==
    IF i = Len(terms) THEN terms[i]
    ELSE terms[i] \o sep \o ops[i] \o sep \o Text(terms, ops, sep, i + 1)

Sources ==
    UNION {{Text(t, o, sep, 1) :
               t \in [1 .. n -> Operands], o \in [1 .. (n - 1) -> OperatorChars],
               sep \in {<<>>, <<" ">>}} : n \in 1 .. MaxTerms}

SyntaxError == [tag |-> "SyntaxError"]

ParseInit ==
    /\ build \in {"debug", "release"}
    /\ rvspec = RiscVSpecNew
    /\ rvPrev = RiscVSpecNew /\ loaded = <<>> /\ loadOks = <<>> /\ loadRes = NoErr
    /\ encBytes = <<>> /\ encBefore = <<>> /\ encVal = {} /\ encCalls = 0
    /\ encPrevVal = {}
    /\ encMap = BitRangeMapNew(0, 0, 0) /\ encPanic = FALSE
    /\ out_buf = <<>> /\ out_pos = 0 /\ prev = [out_buf |-> <<>>, out_pos |-> 0]
    /\ prog = <<>> /\ result = [tag |-> "Running"]
    /\ src \in Sources
    /\ ast = Unparsed
    /\ conv = <<>>

\* asmpeg::expression(src, spec): the rule has to match the whole text
ParseExpression ==
    /\ ast = Unparsed
    /\ \E r \in {expression(rvspec, src, 1)} :
          /\ ast' = IF r.ok /\ r.pos = Len(src) + 1 THEN r.node ELSE SyntaxError
          /\ conv' = r.conv
    /\ UNCHANGED <<build, encVars, rvspec, loadVars, emitVars, src>>

ParseNext == ParseExpression

SpecParse == ParseInit /\ [][ParseNext]_vars

-----------------------------------------------------------------------------
(* Unary minus *)

Parsed == ast # Unparsed

\* the value of a literal of Literals
LiteralValue(l) == DigitVal(l[1])
OperatorTag(o) == IF o = <<"+">> THEN "Plus" ELSE IF o = <<"-">> THEN "Minus" ELSE "Times"

\* C19: unary minus binds tighter than every binary operator: for integer
\* literals a, b and a binary operator op, `-a op b` folds as `(-a) op b`;
\* `-1 + 2` folds to Integer(1) and `-4 * 2 + 1` to the wrapping value of -7.
C19_UnaryMinusBindsTighter ==
    Parsed =>
        /\ \A a \in Literals, b \in Literals, o \in OperatorChars, sep \in {<<>>, <<" ">>} :
              src = Text(<<(<<"-">> \o a), b>>, <<o>>, sep, 1) =>
                  ast = Integer(FoldBinary(OperatorTag(o), Wrap64(0 - LiteralValue(a)),
                                           Wrap64(LiteralValue(b))))
        /\ src = <<"-", "1", " ", "+", " ", "2">> => ast = Integer(U64(1))
        /\ src = <<"-", "4", " ", "*", " ", "2", " ", "+", " ", "1">> =>
              ast = Integer(Wrap64(0 - 7))

-----------------------------------------------------------------------------
(* Digit sections of underscores *)

\* C20: an integer literal whose digit section holds underscores only
\* (`0x_`, `0b__`, `0d_`, a bare `_`) is not matched by rule integer: the
\* text is a syntax error, and no digit string without a digit is handed to
\* the number conversion.
C20_UnderscoresRejected ==
    Parsed =>
        /\ src \in Underscores => ast = SyntaxError
        /\ \A i \in 1 .. Len(conv) : SelectSeq(conv[i].digits, NotUnderscore) # <<>>

-----------------------------------------------------------------------------
(* Looking up a format by name *)

AllLoadsOk == loaded # <<>> /\ \A j \in 1 .. Len(loadOks) : loadOks[j]

\* C21: after successful loads, get_instruction_format_by_name(f.name)
\* returns the first loaded format named f.name for every format f of the
\* spec, and None for a string that names no format, whatever instructions
\* are loaded.
C21_FormatByName ==
    AllLoadsOk =>
        /\ \A k \in 1 .. Len(rvspec.instruction_formats) :
              get_instruction_format_by_name(rvspec, StrChars(rvspec.instruction_formats[k].name))
                  = NamePosition(rvspec.instruction_formats,
                                 rvspec.instruction_formats[k].name, 1)
        /\ \A n \in DOMAIN rvspec.instruction_name_lookup :
              (\A k \in 1 .. Len(rvspec.instruction_formats) :
                  StrChars(rvspec.instruction_formats[k].name) # n) =>
                  get_instruction_format_by_name(rvspec, n) = -1

-----------------------------------------------------------------------------
(* The meta lists *)

\* C22: after any sequence of load calls, successful or failed, the lists
\* loaded_names, loaded_codes and loaded_specs have the same length (the two
\* assert_eq checks of get_loaded_abis never fail).
C22_MetaListsAligned ==
    /\ Len(rvspec.loaded_names) = Len(rvspec.loaded_codes)
    /\ Len(rvspec.loaded_names) = Len(rvspec.loaded_specs)

-----------------------------------------------------------------------------
(* The instruction name lookup *)

\* C23: after any sequence of load calls, every entry (name -> i) of the
\* instruction name lookup has i below the number of stored instructions
\* and instructions[i].name = name, so a loaded instruction stays
\* retrievable under its own name and no name resolves to another
\* instruction.
C23_LookupConsistent ==
    \A n \in DOMAIN rvspec.instruction_name_lookup :
        /\ rvspec.instruction_name_lookup[n] < Len(rvspec.instructions)
        /\ rvspec.instructions[rvspec.instruction_name_lookup[n] + 1].name = n

====
